---- MODULE Spec2Model ----
(***************************************************************************)
(* A model of the dataflow core of qtpynodeeditor: the FlowScene (node and *)
(* connection collections), the per-port connection lists, the calculator  *)
(* example's data models and the synchronous propagation between them.     *)
(*                                                                         *)
(* Python objects are heap entries: a Node is an index into heap_nodes, a  *)
(* Connection an index into heap_conns.  An exception raised inside an     *)
(* operation ends the operation where it is raised; what the operation     *)
(* changed before that point stays changed, and the exception's name is    *)
(* recorded in last.raised.                                                *)
(***************************************************************************)
EXTENDS Integers, Sequences, FiniteSets, TLC

(***************************************************************************)
(* Bounds of the model.                                                    *)
(***************************************************************************)
MaxNodes == 3
MaxConns == 2
CoreNodes == 2
CoreConns == 1
LoadNodes == 3
LoadConns == 1
RecursionLimit == 4
FlowNodes == 3
FlowConns == 2
CalcNodes == 1
TravNodes == 3
TravConns == 2
MaxPasses == 4
RoundNodes == 2
RoundConns == 1
PolicyNodes == 3
PolicyConns == 2
PortNodes == 2
PortConns == 1
ConvNodes == 2
ConvConns == 1
IdNodes == 3
IdConns == 1
SaveNodes == 2
SaveConns == 2
SourceNodes == 3
OrderNodes == 4
OrderConns == 1
WireNodes == 2
WireConns == 2
ClearNodes == 2
ClearConns == 2
RemoveNodes == 3
RemoveConns == 1
CanNodes == 2
CanConns == 2

(***************************************************************************)
(* Rational numbers <<num, den>> stand for the floats of the example.      *)
(***************************************************************************)
Abs(i) == IF i < 0 THEN -i ELSE i

RECURSIVE Gcd(_, _)
Gcd(a, b) == IF b = 0 THEN a ELSE Gcd(b, a % b)

Rat(n, d) ==
    LET g == Gcd(Abs(n), Abs(d))
        s == IF d < 0 THEN -1 ELSE 1
    IN  [num |-> (s * n) \div g, den |-> (s * d) \div g]

FromInt(i) == [num |-> i, den |-> 1]
RatAdd(a, b) == Rat(a.num * b.den + b.num * a.den, a.den * b.den)
RatSub(a, b) == Rat(a.num * b.den - b.num * a.den, a.den * b.den)
RatMul(a, b) == Rat(a.num * b.num, a.den * b.den)
RatDiv(a, b) == Rat(a.num * b.den, a.den * b.num)
\* float % float of Python: the result has the sign of the divisor
RatMod(a, b) ==
    LET x == a.num * b.den
        y == b.num * a.den
    IN  Rat(x - y * (x \div y), a.den * b.den)
\* int(float): truncation towards zero
Trunc(a) == IF a.num >= 0 THEN a.num \div a.den ELSE -((-a.num) \div a.den)

(***************************************************************************)
(* NodeData.  None is the empty value.                                     *)
(***************************************************************************)
None == [type |-> "none", number |-> FromInt(0)]
DecimalData(q) == [type |-> "decimal", number |-> q]
IntegerData(q) == [type |-> "integer", number |-> q]

\* the ids of DecimalData.data_type and IntegerData.data_type
DecimalTypeId == "decimal"
IntegerTypeId == "integer"

\* DecimalData.number is a property (a float); IntegerData.number is a plain
\* method, so the attribute is a bound method, not a number.
NumberIsValue(d) == d.type = "decimal"

(***************************************************************************)
(* The converters.  decimal_to_integer_converter reads data.number and     *)
(* passes it to int(): on an IntegerData that is int(<bound method>), a    *)
(* TypeError.  integer_to_decimal_converter passes it to float().          *)
(***************************************************************************)
NoConverter == "none"
DefaultTypeConverter == "default"

decimal_to_integer_converter(d) ==
    IF NumberIsValue(d)
    THEN [data |-> IntegerData(FromInt(Trunc(d.number))), raised |-> "none"]
    ELSE [data |-> None, raised |-> "TypeError"]

integer_to_decimal_converter(d) ==
    IF NumberIsValue(d)
    THEN [data |-> DecimalData(d.number), raised |-> "none"]
    ELSE [data |-> None, raised |-> "TypeError"]

\* main(): both registrations name decimal_to_integer_converter
RegisteredConverter(out_type, in_type) ==
    IF out_type = DecimalTypeId /\ in_type = IntegerTypeId THEN "decimal_to_integer"
    ELSE IF out_type = IntegerTypeId /\ in_type = DecimalTypeId THEN "decimal_to_integer"
    ELSE NoConverter

(***************************************************************************)
(* The data models of the calculator example.  One record shape serves all *)
(* of them: number1, number2, result (MathOperationDataModel), number      *)
(* (NumberSourceDataModel, NumberDisplayModel), validation_state.          *)
(***************************************************************************)
MathNames == {"Addition", "Division", "Modulo", "Multiplication", "Subtraction"}
ModelNames == MathNames \cup {"NumberSource", "NumberDisplay"}

NewModel(name) ==
    [name |-> name,
     number1 |-> None, number2 |-> None, result |-> None,
     \* NumberSourceDataModel.__init__ ends with setText("0.0"), which runs
     \* on_text_edited: the source starts with DecimalData(0.0)
     number |-> IF name = "NumberSource" THEN DecimalData(FromInt(0)) ELSE None,
     \* NodeDataModel.validation_state is valid unless the model overrides it
     validation_state |-> IF name = "NumberSource" THEN "valid" ELSE "warning",
     \* what port_out_connection_policy returns: no model of the calculator
     \* overrides NodeDataModel's
     out_policy |-> "many"]

\* NodeDataModel.port_out_connection_policy
port_out_connection_policy(m, port_index) == m.out_policy

n_ports(name, port_type) ==
    IF name \in MathNames THEN (IF port_type = "in" THEN 2 ELSE 1)
    ELSE IF name = "NumberSource" THEN (IF port_type = "in" THEN 0 ELSE 1)
    ELSE (IF port_type = "in" THEN 1 ELSE 0)

data_type(name, port_type, port_index) ==
    IF name = "Modulo" THEN IntegerTypeId ELSE DecimalTypeId

out_data(m) ==
    IF m.name \in MathNames THEN m.result
    ELSE IF m.name = "NumberSource" THEN m.number
    ELSE None

\* the test on one input in _check_inputs and in NumberDisplayModel.set_in_data
InputOk(d) == d /= None /\ d.type \in {"Decimal", "integer"}

\* _check_inputs that looks at the first input only
check_inputs_ok_first_only(m) == InputOk(m.number1)

check_inputs_ok(m) == InputOk(m.number1) /\ InputOk(m.number2)

\* _check_inputs when an input fails the test
check_inputs_failed(m) ==
    [model |-> [m EXCEPT !.validation_state = "warning", !.result = None],
     emit |-> TRUE, raised |-> "none"]

\* compute() of each model: an arithmetic operator applied to a bound method
\* raises TypeError, and <bound method> == 0.0 is False.
BothValues(m) == NumberIsValue(m.number1) /\ NumberIsValue(m.number2)
IsZero(d) == NumberIsValue(d) /\ d.number.num = 0

compute_value(name, a, b) ==
    CASE name = "Addition" -> DecimalData(RatAdd(a, b))
      [] name = "Subtraction" -> DecimalData(RatSub(a, b))
      [] name = "Multiplication" -> DecimalData(RatMul(a, b))
      [] name = "Division" -> DecimalData(RatDiv(a, b))
      [] OTHER -> IntegerData(RatMod(a, b))

\* DivisionModel and SubtractionModel set the state before they compute
compute_state(m) ==
    IF m.name \in {"Division", "Subtraction"} THEN "valid" ELSE m.validation_state

compute(m) ==
    IF m.name \in {"Division", "Modulo"} /\ IsZero(m.number2)
    THEN [model |-> [m EXCEPT !.validation_state = "error", !.result = None],
          raised |-> "none"]
    ELSE IF ~BothValues(m)
    THEN [model |-> [m EXCEPT !.validation_state = compute_state(m)],
          raised |-> "TypeError"]
    ELSE [model |-> [m EXCEPT !.validation_state = compute_state(m),
                              !.result = compute_value(m.name, m.number1.number,
                                                       m.number2.number)],
          raised |-> "none"]

\* the end of the with-block of _compute_lock: data_updated is emitted only
\* when compute() raised nothing
compute_done(c) == [model |-> c.model, emit |-> c.raised = "none", raised |-> c.raised]

\* _compute_lock around compute(): None is falsy, every NodeData is truthy
compute_locked(m) ==
    IF m.number1 = None \/ m.number2 = None
    THEN [model |-> m, emit |-> FALSE, raised |-> "RuntimeError"]
    ELSE compute_done(compute(m))

store_input(m, data, port_index) ==
    IF port_index = 0 THEN [m EXCEPT !.number1 = data]
    ELSE IF port_index = 1 THEN [m EXCEPT !.number2 = data]
    ELSE m

\* _check_inputs, and compute() under the lock when it passes
check_and_compute(m) ==
    IF ~check_inputs_ok(m) THEN check_inputs_failed(m)
    ELSE compute_locked([m EXCEPT !.validation_state = "valid"])

\* MathOperationDataModel.set_in_data
math_set_in_data(m, data, port_index) == check_and_compute(store_input(m, data, port_index))

\* NumberDisplayModel.set_in_data
display_set_in_data(m, data, port_index) ==
    [model |-> [m EXCEPT !.number = data,
                         !.validation_state = IF InputOk(data) THEN "valid" ELSE "warning"],
     emit |-> FALSE, raised |-> "none"]

\* the set_in_data of the node's model; NodeDataModel.set_in_data does nothing
set_in_data(m, data, port_index) ==
    IF m.name \in MathNames THEN math_set_in_data(m, data, port_index)
    ELSE IF m.name = "NumberDisplay" THEN display_set_in_data(m, data, port_index)
    ELSE [model |-> m, emit |-> FALSE, raised |-> "none"]

\* NumberSourceDataModel.on_text_edited with a text float() accepts
source_set_number(m, v) == [m EXCEPT !.number = DecimalData(FromInt(v))]

\* the significant digits '%g' writes
SignificantDigits == 6

RECURSIVE Pow10(_)
Pow10(k) == IF k = 0 THEN 1 ELSE 10 * Pow10(k - 1)

\* the decimal digits of a natural number
RECURSIVE Digits(_)
Digits(n) == IF n < 10 THEN 1 ELSE 1 + Digits(n \div 10)

\* a / b rounded to the nearest integer, a tie to the even one
RoundDiv(a, b) ==
    IF 2 * (a % b) > b \/ (2 * (a % b) = b /\ (a \div b) % 2 = 1)
    THEN (a \div b) + 1 ELSE a \div b

\* the least k from which a * 10^k / den has SignificantDigits digits before
\* the point
RECURSIVE Shift(_, _, _)
Shift(a, den, k) ==
    IF (a * Pow10(k)) \div den >= Pow10(SignificantDigits - 1) THEN k
    ELSE Shift(a, den, k + 1)

\* a / den > 0 written with SignificantDigits significant digits
SignificantPart(a, den) ==
    IF Digits(a \div den) > SignificantDigits
    THEN FromInt(RoundDiv(a, den * Pow10(Digits(a \div den) - SignificantDigits))
                    * Pow10(Digits(a \div den) - SignificantDigits))
    ELSE Rat(RoundDiv(a * Pow10(Shift(a, den, 0)), den), Pow10(Shift(a, den, 0)))

\* DecimalData.number_as_text, '%g' % number: the decimal the text writes
number_as_text(q) ==
    IF q.num = 0 THEN FromInt(0)
    ELSE IF q.num < 0 THEN RatSub(FromInt(0), SignificantPart(-q.num, q.den))
    ELSE SignificantPart(q.num, q.den)

\* NumberSourceDataModel.restore into a model just constructed.  A state
\* without "number" fails in the try and is passed over.  Otherwise the
\* number is set and its text is put in the line edit; the edit of a new
\* model holds "0.0", which '%g' never writes, so textChanged runs
\* on_text_edited and the number becomes float() of the text
source_restore(m, number) ==
    IF number = None THEN m
    ELSE [m EXCEPT !.number = DecimalData(number_as_text(number.number))]

(***************************************************************************)
(* Nodes, ports and connections.  A node record holds the node's id, its   *)
(* model and its port state: per direction, per port index, the port's     *)
(* list of connections (Port._connections).  Port indices are 0-based in   *)
(* the code and stored at position index + 1.                              *)
(***************************************************************************)
\* the ports a Node makes for its model: each starts with no connection
NewPorts(n) ==
    IF n = 0 THEN <<>> ELSE IF n = 1 THEN << <<>> >> ELSE << <<>>, <<>> >>

NewNode(uid, name) ==
    [uid |-> uid,
     model |-> NewModel(name),
     in_ports |-> NewPorts(n_ports(name, "in")),
     out_ports |-> NewPorts(n_ports(name, "out"))]

\* Connection.from_nodes; node 0 is an unbound end.  hooks is the record of
\* the connection hooks of the node models that were invoked with this
\* connection, in order.
NewConnection(node_in, port_index_in, node_out, port_index_out, converter) ==
    [in_node |-> node_in, in_index |-> port_index_in,
     out_node |-> node_out, out_index |-> port_index_out,
     converter |-> converter, hooks |-> <<>>]

\* send_connection_created_to_nodes and send_connection_deleted_to_nodes
CreatedHooks == <<"output_connection_created", "input_connection_created">>
DeletedHooks == <<"output_connection_deleted", "input_connection_deleted">>

InSeq(x, q) == \E i \in 1..Len(q) : q[i] = x

\* list.remove(x): the first occurrence goes
FirstIndex(q, x) == CHOOSE i \in 1..Len(q) : q[i] = x /\ \A j \in 1..(i - 1) : q[j] /= x
RemoveAt(q, i) == SubSeq(q, 1, i - 1) \o SubSeq(q, i + 1, Len(q))
RemoveFirst(q, x) == IF ~InSeq(x, q) THEN q ELSE RemoveAt(q, FirstIndex(q, x))

\* Port.connections (a copy of the list, never None)
port_connections(node, port_type, port_index) ==
    IF port_type = "in" THEN node.in_ports[port_index + 1]
    ELSE node.out_ports[port_index + 1]

\* Port.connection_policy: One for an input port; for an output port it
\* reads self.model, an attribute Port does not have (it has data_model)
port_connection_policy(node, port_type, port_index) ==
    IF port_type = "in" THEN [policy |-> "one", raised |-> "none"]
    ELSE [policy |-> "none", raised |-> "AttributeError"]

\* the end of Port.can_connect for a port that holds a connection
policy_is_many(p) == [value |-> p.raised = "none" /\ p.policy = "many", raised |-> p.raised]

\* Port.can_connect: 'not self._connections or connection_policy == many';
\* the policy is read only when the port holds a connection
can_connect(node, port_type, port_index) ==
    IF port_connections(node, port_type, port_index) = <<>>
    THEN [value |-> TRUE, raised |-> "none"]
    ELSE policy_is_many(port_connection_policy(node, port_type, port_index))

\* Port.add_connection without its test "connection in self._connections"
port_add_connection_unchecked(conns, c) ==
    [connections |-> Append(conns, c), emitted |-> <<c>>, raised |-> "none"]

\* Port.add_connection: the list after the call, the connection_created
\* signals emitted, the exception raised
port_add_connection(conns, c) ==
    IF InSeq(c, conns)
    THEN [connections |-> conns, emitted |-> <<>>, raised |-> "ValueError"]
    ELSE [connections |-> Append(conns, c), emitted |-> <<c>>, raised |-> "none"]

\* Port.remove_connection: a connection the port does not hold is ignored
port_remove_connection(conns, c) == RemoveFirst(conns, c)

\* node_state().set_connection(port_type, port_index, connection)
set_connection(node, port_type, port_index, c) ==
    IF port_type = "in"
    THEN [node EXCEPT !.in_ports[port_index + 1] = port_add_connection(@, c).connections]
    ELSE [node EXCEPT !.out_ports[port_index + 1] = port_add_connection(@, c).connections]

\* node_state().erase_connection(port_type, port_index, connection)
erase_connection(node, port_type, port_index, c) ==
    IF port_type = "in"
    THEN [node EXCEPT !.in_ports[port_index + 1] = port_remove_connection(@, c)]
    ELSE [node EXCEPT !.out_ports[port_index + 1] = port_remove_connection(@, c)]

\* the lists of a node's ports, one after the other
FlattenPorts(ports) ==
    IF Len(ports) = 0 THEN <<>>
    ELSE IF Len(ports) = 1 THEN ports[1]
    ELSE ports[1] \o ports[2]

\* node_state().all_connections: the connections of every port of the node
all_connections(node) == FlattenPorts(node.in_ports) \o FlattenPorts(node.out_ports)

(***************************************************************************)
(* Propagation.  h is the node heap, cs the connection heap.  Each operator *)
(* returns [h, raised]: the heap after the call and the exception that     *)
(* ended it, if any.  depth counts the frames of the recursion left before *)
(* Python's RecursionError.                                                *)
(***************************************************************************)
apply_converter(converter, data) ==
    IF data = None THEN [data |-> None, raised |-> "none"]
    ELSE IF converter = "decimal_to_integer" THEN decimal_to_integer_converter(data)
    ELSE IF converter = "integer_to_decimal" THEN integer_to_decimal_converter(data)
    ELSE [data |-> data, raised |-> "none"]

RECURSIVE on_data_updated(_, _, _, _, _)
RECURSIVE propagate_to(_, _, _, _, _)

\* the rest of Node.propagate_data once set_in_data has run: a model that
\* emitted data_updated has run its node's on_data_updated before returning
after_set_in_data(h, cs, n, r, depth) ==
    IF r.raised = "none" /\ r.emit
    THEN on_data_updated([h EXCEPT ![n].model = r.model], cs, n, 0, depth - 1)
    ELSE [h |-> [h EXCEPT ![n].model = r.model], raised |-> r.raised]

\* Node.propagate_data
node_propagate_data(h, cs, n, data, port_index, depth) ==
    after_set_in_data(h, cs, n, set_in_data(h[n].model, data, port_index), depth)

deliver(h, cs, k, conv, depth) ==
    IF conv.raised /= "none" THEN [h |-> h, raised |-> conv.raised]
    ELSE node_propagate_data(h, cs, k.in_node, conv.data, k.in_index, depth)

\* Connection.propagate_data: nothing without an in-node; the converter is
\* applied to a value, never to None
connection_propagate_data(h, cs, k, data, depth) ==
    IF k.in_node = 0 THEN [h |-> h, raised |-> "none"]
    ELSE deliver(h, cs, k, apply_converter(k.converter, data), depth)

propagate_rest(r, cs, conns, data, depth) ==
    IF r.raised /= "none" THEN r
    ELSE propagate_to(r.h, cs, conns, data, depth)

\* the loop of on_data_updated over the connections of the out port
propagate_to(h, cs, conns, data, depth) ==
    IF conns = <<>> THEN [h |-> h, raised |-> "none"]
    ELSE propagate_rest(connection_propagate_data(h, cs, cs[Head(conns)], data, depth),
                        cs, Tail(conns), data, depth)

\* Node.on_data_updated(index): read out_data(index) once, hand it to every
\* connection of the out port
on_data_updated(h, cs, n, port_index, depth) ==
    IF depth <= 0 THEN [h |-> h, raised |-> "RecursionError"]
    ELSE propagate_to(h, cs, port_connections(h[n], "out", port_index),
                      out_data(h[n].model), depth)

(***************************************************************************)
(* The FlowScene.                                                          *)
(*   nodes        _nodes: the dict id -> Node in insertion order, a        *)
(*                sequence of [uid, node]                                  *)
(*   connections  _connections: the list of Connection                     *)
(*   heap_nodes   every Node object made so far (a removed node lives on   *)
(*                while something refers to it)                            *)
(*   heap_conns   every Connection object made so far                      *)
(*   last         the last operation, its argument, how it ended, the       *)
(*                visitor calls it made, in order, and, for a save that is *)
(*                loaded again, the graph that was saved; for a call of a  *)
(*                port's add_connection, the port and the signals emitted; *)
(*                for a call of a connection's propagate_data, the data;   *)
(*                for a load, the restore calls it made, in order; for a   *)
(*                read of a port's can_connect, the port, its index (in    *)
(*                visited) and the value read (in emitted)                 *)
(* The operations are functions of the scene state                         *)
(*   s = [nodes, connections, h, cs, raised, calls]                        *)
(* so that one operation can call another, as the code does.               *)
(***************************************************************************)
VARIABLES nodes, connections, heap_nodes, heap_conns, last

vars == <<nodes, connections, heap_nodes, heap_conns, last>>

SceneNodes == {nodes[i].node : i \in 1..Len(nodes)}

DictHas(d, uid) == \E i \in 1..Len(d) : d[i].uid = uid

\* self._nodes[uid]
DictGet(d, uid) == d[CHOOSE i \in 1..Len(d) : d[i].uid = uid].node

\* self._nodes[uid] = node: a key the dict holds keeps its place
DictSet(d, uid, n) ==
    IF DictHas(d, uid)
    THEN [d EXCEPT ![CHOOSE i \in 1..Len(d) : d[i].uid = uid].node = n]
    ELSE Append(d, [uid |-> uid, node |-> n])

\* del self._nodes[uid]
DictDel(d, uid) == SelectSeq(d, LAMBDA e : e.uid /= uid)

\* list(self._nodes.values())
DictValues(d) == [i \in 1..Len(d) |-> d[i].node]

Ok(s) == [s EXCEPT !.raised = "none"]
Raise(s, e) == [s EXCEPT !.raised = e]

\* the connection leaves the port of each bound end
detach_end(h, n, port_type, port_index, c) ==
    IF n = 0 THEN h
    ELSE [h EXCEPT ![n] = erase_connection(@, port_type, port_index, c)]

detach(h, k, c) ==
    detach_end(detach_end(h, k.in_node, "in", k.in_index, c),
               k.out_node, "out", k.out_index, c)

\* Connection.remove_from_nodes: detach, then the empty value goes to the
\* in-node's input
remove_from_nodes(h, cs, c) ==
    IF cs[c].in_node = 0 THEN [h |-> detach(h, cs[c], c), raised |-> "none"]
    ELSE node_propagate_data(detach(h, cs[c], c), cs, cs[c].in_node, None,
                             cs[c].in_index, RecursionLimit)

\* FlowScene.send_connection_deleted_to_nodes: both nodes are asserted, then
\* each model's deleted hook is called
send_connection_deleted_to_nodes(k) ==
    IF k.out_node = 0 \/ k.in_node = 0
    THEN [connection |-> k, raised |-> "AssertionError"]
    ELSE [connection |-> [k EXCEPT !.hooks = @ \o DeletedHooks], raised |-> "none"]

\* connection_deleted wired to every connection of the collection, whether or
\* not connection_created was sent for it
connection_deleted_always_wired(k) == send_connection_deleted_to_nodes(k)

\* the connection's connection_made_incomplete reaches connection_deleted
\* only when setup_connection_signals has wired it, which connection_created
\* does
connection_deleted(k) ==
    IF k.hooks = <<>> THEN [connection |-> k, raised |-> "none"]
    ELSE send_connection_deleted_to_nodes(k)

\* the connection emits connection_made_incomplete once as it leaves its
\* nodes, before the empty value is sent on
removed_connection(s, c, r) ==
    [s EXCEPT !.connections = RemoveFirst(s.connections, c),
              !.h = r.h,
              !.raised = IF connection_deleted(s.cs[c]).raised /= "none"
                         THEN connection_deleted(s.cs[c]).raised ELSE r.raised,
              !.cs[c] = connection_deleted(s.cs[c]).connection]

\* delete_connection that takes the connection off its nodes whether or not
\* the collection held it
delete_connection_unguarded(s, c) ==
    removed_connection(s, c, remove_from_nodes(s.h, s.cs, c))

\* FlowScene.delete_connection
delete_connection(s, c) ==
    IF ~InSeq(c, s.connections) THEN Ok(s)
    ELSE removed_connection(s, c, remove_from_nodes(s.h, s.cs, c))

RECURSIVE delete_each(_, _)

delete_rest(r, conns) == IF r.raised /= "none" THEN r ELSE delete_each(r, conns)

delete_each(s, conns) ==
    IF conns = <<>> THEN Ok(s)
    ELSE delete_rest(delete_connection(s, Head(conns)), Tail(conns))

\* del self._nodes[node.id()]
del_node(r, n) ==
    IF r.raised /= "none" THEN r
    ELSE IF ~DictHas(r.nodes, r.h[n].uid) THEN Raise(r, "KeyError")
    ELSE [r EXCEPT !.nodes = DictDel(r.nodes, r.h[n].uid)]

\* FlowScene.remove_node
remove_node(s, n) == del_node(delete_each(s, all_connections(s.h[n])), n)

RECURSIVE remove_each(_, _)

remove_rest(r, ns) == IF r.raised /= "none" THEN r ELSE remove_each(r, ns)

remove_each(s, ns) ==
    IF ns = <<>> THEN Ok(s)
    ELSE remove_rest(remove_node(s, Head(ns)), Tail(ns))

clear_nodes(r) == IF r.raised /= "none" THEN r ELSE remove_each(r, DictValues(r.nodes))

\* FlowScene.clear_scene
clear_scene(s) == clear_nodes(delete_each(s, s.connections))

\* create_node that files the node under the number of nodes in the scene
create_node_keyed_by_count(s, name) ==
    [s EXCEPT !.h = Append(s.h, NewNode(Len(s.h) + 1, name)),
              !.nodes = DictSet(s.nodes, Len(s.nodes) + 1, Len(s.h) + 1),
              !.raised = "none"]

\* FlowScene.create_node: Node.__init__ gives the node an id no node has had
create_node(s, name) ==
    [s EXCEPT !.h = Append(s.h, NewNode(Len(s.h) + 1, name)),
              !.nodes = DictSet(s.nodes, Len(s.h) + 1, Len(s.h) + 1),
              !.raised = "none"]

\* create_node of a registered model that is a subclass of one of the
\* calculator's and overrides port_out_connection_policy to return One
create_node_policy_one(s, name) ==
    [create_node(s, name) EXCEPT !.h[Len(s.h) + 1].model.out_policy = "one"]

\* both ports of create_connection hold the connection
attach_end(h, n, port_type, port_index, c) ==
    [h EXCEPT ![n] = set_connection(@, port_type, port_index, c)]

attach(h, node_in, port_index_in, node_out, port_index_out, c) ==
    attach_end(attach_end(h, node_in, "in", port_index_in, c),
               node_out, "out", port_index_out, c)

\* FlowScene.send_connection_created_to_nodes: both nodes are asserted, then
\* each model's created hook is called
send_connection_created_to_nodes(k) ==
    IF k.out_node = 0 \/ k.in_node = 0
    THEN [connection |-> k, raised |-> "AssertionError"]
    ELSE [connection |-> [k EXCEPT !.hooks = @ \o CreatedHooks], raised |-> "none"]

\* the end of create_connection: the list and the signal come after the
\* propagation, and only when it raised nothing
connection_created_early(s, k, r) ==
    [s EXCEPT !.cs = Append(s.cs, [k EXCEPT !.hooks = CreatedHooks]),
              !.h = r.h, !.raised = r.raised,
              !.connections = IF r.raised = "none" THEN Append(@, Len(s.cs) + 1) ELSE @]

connection_created(s, k, r) ==
    [s EXCEPT !.cs = Append(s.cs, IF r.raised = "none"
                                  THEN send_connection_created_to_nodes(k).connection
                                  ELSE k),
              !.h = r.h,
              !.raised = IF r.raised = "none"
                         THEN send_connection_created_to_nodes(k).raised ELSE r.raised,
              !.connections = IF r.raised = "none" THEN Append(@, Len(s.cs) + 1) ELSE @]

\* create_connection without its "trigger data propagation" step
create_connection_unpropagated(s, node_in, port_index_in, node_out, port_index_out, converter) ==
    connection_created(
        s, NewConnection(node_in, port_index_in, node_out, port_index_out, converter),
        [h |-> attach(s.h, node_in, port_index_in, node_out, port_index_out,
                      Len(s.cs) + 1),
         raised |-> "none"])

\* FlowScene.create_connection
create_connection(s, node_in, port_index_in, node_out, port_index_out, converter) ==
    connection_created(
        s, NewConnection(node_in, port_index_in, node_out, port_index_out, converter),
        on_data_updated(
            attach(s.h, node_in, port_index_in, node_out, port_index_out, Len(s.cs) + 1),
            Append(s.cs, NewConnection(node_in, port_index_in,
                                       node_out, port_index_out, converter)),
            node_out, port_index_out, RecursionLimit))

\* create_connection_node that sends connection_created for the new wire
create_connection_node_announced(s, connected_port, n, port_index) ==
    [s EXCEPT !.cs = Append(s.cs, [NewConnection(n, port_index, n, port_index, NoConverter)
                                      EXCEPT !.hooks = CreatedHooks,
                                             !.in_node = IF connected_port = "in" THEN n ELSE 0,
                                             !.out_node = IF connected_port = "in" THEN 0 ELSE n]),
              !.connections = Append(s.connections, Len(s.cs) + 1),
              !.raised = "none"]

\* FlowScene.create_connection_node: a connection with one end bound, which
\* goes into the collection at once and onto no port
create_connection_node(s, connected_port, n, port_index) ==
    [s EXCEPT !.cs = Append(s.cs, IF connected_port = "in"
                                  THEN NewConnection(n, port_index, 0, 0, NoConverter)
                                  ELSE NewConnection(0, 0, n, port_index, NoConverter)),
              !.connections = Append(s.connections, Len(s.cs) + 1),
              !.raised = "none"]

(***************************************************************************)
(* Documents.  A document is [nodes, connections]; a node entry is         *)
(* [id, name, number] (number is None when the model saved none), a        *)
(* connection entry [in_id, in_index, out_id, out_index, converter] with   *)
(* converter the pair of type ids the converter joins, or Absent.          *)
(***************************************************************************)
Absent == [present |-> FALSE, in |-> "", out |-> ""]

\* the "converter" entry of a connection: the type ids of its two ports
ConverterJson(in_type, out_type) == [present |-> TRUE, in |-> in_type, out |-> out_type]

\* Node.save with NumberSourceDataModel.save: every NodeData is truthy, so a
\* source with a number always writes it
node_save(node) ==
    [id |-> node.uid, name |-> node.model.name,
     number |-> IF node.model.name = "NumberSource" THEN node.model.number ELSE None]

\* Connection.save of a connection with both ends bound
connection_save(h, k) ==
    [in_id |-> h[k.in_node].uid, in_index |-> k.in_index,
     out_id |-> h[k.out_node].uid, out_index |-> k.out_index,
     converter |-> IF k.converter = NoConverter THEN Absent
                   ELSE ConverterJson(data_type(h[k.in_node].model.name, "in", k.in_index),
                                      data_type(h[k.out_node].model.name, "out",
                                                k.out_index))]

IsComplete(k) == k.in_node /= 0 /\ k.out_node /= 0

SavedConnections(s) == SelectSeq(s.connections, LAMBDA c : IsComplete(s.cs[c]))

RECURSIVE nodes_json_array(_, _)
nodes_json_array(h, ns) ==
    IF ns = <<>> THEN <<>>
    ELSE <<node_save(h[Head(ns)])>> \o nodes_json_array(h, Tail(ns))

RECURSIVE connection_json_array(_, _, _)
connection_json_array(h, cs, conns) ==
    IF conns = <<>> THEN <<>>
    ELSE <<connection_save(h, cs[Head(conns)])>> \o connection_json_array(h, cs, Tail(conns))

\* FlowScene.save_to_memory.  It calls connection_json.isEmpty() on what
\* connection.save() returns.  plain_dict says whether that is a plain dict,
\* which has no isEmpty: then the first connection of the collection ends the
\* save with an AttributeError.  Otherwise a connection with an unbound end
\* saves as empty and is left out.
save_to_memory(s, plain_dict) ==
    IF plain_dict /\ s.connections /= <<>>
    THEN [doc |-> [nodes |-> nodes_json_array(s.h, DictValues(s.nodes)),
                   connections |-> <<>>],
          raised |-> "AttributeError"]
    ELSE [doc |-> [nodes |-> nodes_json_array(s.h, DictValues(s.nodes)),
                   connections |-> connection_json_array(s.h, s.cs, SavedConnections(s))],
          raised |-> "none"]

\* Node.restore: the id of the document, and the model's restore()
restored_node(node_json) ==
    IF node_json.name = "NumberSource"
    THEN [NewNode(node_json.id, node_json.name) EXCEPT
              !.model = source_restore(@, node_json.number)]
    ELSE NewNode(node_json.id, node_json.name)

\* FlowScene.restore_node: an unregistered name raises before a node is made
restore_node(s, node_json) ==
    IF node_json.name \notin ModelNames THEN Raise(s, "ValueError")
    ELSE [s EXCEPT !.h = Append(s.h, restored_node(node_json)),
                   !.nodes = DictSet(s.nodes, node_json.id, Len(s.h) + 1),
                   !.raised = "none"]

\* get_converter of restore_connection: a present "converter" entry returns
\* DefaultTypeConverter; an absent one goes on to subscript None
get_converter(connection_json) ==
    IF connection_json.converter /= Absent
    THEN [converter |-> DefaultTypeConverter, raised |-> "none"]
    ELSE [converter |-> NoConverter, raised |-> "TypeError"]

\* FlowScene.restore_connection
restore_connection(s, j) ==
    IF ~DictHas(s.nodes, j.in_id) \/ ~DictHas(s.nodes, j.out_id)
    THEN Raise(s, "KeyError")
    ELSE IF get_converter(j).raised /= "none" THEN Raise(s, get_converter(j).raised)
    ELSE create_connection(s, DictGet(s.nodes, j.in_id), j.in_index,
                           DictGet(s.nodes, j.out_id), j.out_index,
                           get_converter(j).converter)

\* a call made by load_from_memory, noted in the order of the calls
Called(s, name) == [s EXCEPT !.calls = Append(@, name)]

RECURSIVE restore_nodes(_, _)

restore_nodes_rest(r, js) == IF r.raised /= "none" THEN r ELSE restore_nodes(r, js)

restore_nodes(s, js) ==
    IF js = <<>> THEN Ok(s)
    ELSE restore_nodes_rest(restore_node(Called(s, "restore_node"), Head(js)), Tail(js))

RECURSIVE restore_connections(_, _)

restore_connections_rest(r, js) ==
    IF r.raised /= "none" THEN r ELSE restore_connections(r, js)

restore_connections(s, js) ==
    IF js = <<>> THEN Ok(s)
    ELSE restore_connections_rest(
             restore_connection(Called(s, "restore_connection"), Head(js)), Tail(js))

\* load_from_memory that restores the connections ahead of the nodes
load_from_memory_connections_first(s, doc) ==
    restore_nodes_rest(restore_connections(s, doc.connections), doc.nodes)

\* FlowScene.load_from_memory: the nodes, then the connections
load_from_memory(s, doc) ==
    restore_connections_rest(restore_nodes(s, doc.nodes), doc.connections)

\* FlowScene.load: clear_scene, then nothing more when there is no such
\* file, else load_from_memory of what the file holds
load_file(r, file_exists, doc) ==
    IF r.raised /= "none" \/ ~file_exists THEN r ELSE load_from_memory(r, doc)

load(s, file_exists, doc) == load_file(clear_scene(s), file_exists, doc)

(***************************************************************************)
(* FlowScene.iterate_over_node_data_dependent_order.  The visitor is any   *)
(* callable; what the traversal decides is the sequence of nodes whose     *)
(* model it hands to the visitor, which is what these operators return.    *)
(***************************************************************************)
\* "connections is None": node_state().connections() returns a list
IsNoneObject(conns) == FALSE

\* is_node_leaf as the comment above it describes it: every input port empty
is_node_leaf_inputs_empty(node) ==
    \A i \in 0..(n_ports(node.model.name, "in") - 1) :
        port_connections(node, "in", i) = <<>>

\* is_node_leaf of the traversal
is_node_leaf(node) ==
    ~\E i \in 0..(n_ports(node.model.name, "in") - 1) :
        IsNoneObject(port_connections(node, "in", i))

RECURSIVE leaf_pass(_, _, _)

\* the loop "Iterate over leaf nodes"
leaf_pass(h, ns, visited_nodes) ==
    IF ns = <<>> THEN visited_nodes
    ELSE leaf_pass(h, Tail(ns),
                   IF is_node_leaf(h[Head(ns)]) THEN Append(visited_nodes, Head(ns))
                   ELSE visited_nodes)

\* are_node_inputs_visited_before: False when a connection of an input port
\* comes from the node visited last
are_node_inputs_visited_before(h, cs, n, visited_nodes) ==
    ~\E i \in 1..Len(all_connections([h[n] EXCEPT !.out_ports = <<>>])) :
        /\ visited_nodes /= <<>>
        /\ cs[all_connections([h[n] EXCEPT !.out_ports = <<>>])[i]].out_node
              = visited_nodes[Len(visited_nodes)]

\* the body of the for loop of "Iterate over dependent nodes"
visit_dependent(h, cs, n, visited_nodes) ==
    IF InSeq(n, visited_nodes) /\ n /= visited_nodes[Len(visited_nodes)]
    THEN visited_nodes
    ELSE IF are_node_inputs_visited_before(h, cs, n, visited_nodes)
    THEN Append(visited_nodes, n)
    ELSE visited_nodes

RECURSIVE dependent_pass(_, _, _, _)

dependent_pass(h, cs, ns, visited_nodes) ==
    IF ns = <<>> THEN visited_nodes
    ELSE dependent_pass(h, cs, Tail(ns), visit_dependent(h, cs, Head(ns), visited_nodes))

RECURSIVE dependent_loop(_, _, _, _, _)

\* the while loop; passes counts the passes left before the traversal is
\* given up as one that does not end
dependent_loop(h, cs, ns, visited_nodes, passes) ==
    IF Len(ns) = Len(visited_nodes)
    THEN [visited |-> visited_nodes, raised |-> "none"]
    ELSE IF passes = 0 THEN [visited |-> visited_nodes, raised |-> "no end"]
    ELSE dependent_loop(h, cs, ns, dependent_pass(h, cs, ns, visited_nodes), passes - 1)

iterate_over_node_data_dependent_order(s) ==
    dependent_loop(s.h, s.cs, DictValues(s.nodes),
                   leaf_pass(s.h, DictValues(s.nodes), <<>>), MaxPasses)

(***************************************************************************)
(* The state machine: one action per operation of the scene.               *)
(***************************************************************************)
\* what a graph is to a reader of its document: the saved entries of its
\* nodes and of its connections, as sets
GraphOf(s) ==
    [nodes |-> {node_save(s.h[s.nodes[i].node]) : i \in 1..Len(s.nodes)},
     connections |-> {connection_save(s.h, s.cs[s.connections[i]]) :
                         i \in 1..Len(s.connections)}]

NoGraph == [nodes |-> {}, connections |-> {}]

Scene == [nodes |-> nodes, connections |-> connections, h |-> heap_nodes,
          cs |-> heap_conns, raised |-> "none", calls |-> <<>>]

Done(r, op, arg) ==
    /\ nodes' = r.nodes
    /\ connections' = r.connections
    /\ heap_nodes' = r.h
    /\ heap_conns' = r.cs
    /\ last' = [op |-> op, arg |-> arg, raised |-> r.raised, visited |-> <<>>,
                doc |-> NoGraph, port |-> "none", emitted |-> <<>>, calls |-> <<>>,
                data |-> None]

Converters == {NoConverter, "decimal_to_integer"}
SourceValues == {0, 1, 2}
CoreValues == {0, 1}

Init ==
    /\ nodes = <<>>
    /\ connections = <<>>
    /\ heap_nodes = <<>>
    /\ heap_conns = <<>>
    /\ last = [op |-> "none", arg |-> 0, raised |-> "none", visited |-> <<>>,
               doc |-> NoGraph, port |-> "none", emitted |-> <<>>, calls |-> <<>>,
                data |-> None]

CreateNode(name, max_nodes) ==
    /\ Len(heap_nodes) < max_nodes
    /\ Done(create_node(Scene, name), "create_node", Len(heap_nodes) + 1)

CreateNodePolicyOne(name, max_nodes) ==
    /\ Len(heap_nodes) < max_nodes
    /\ Done(create_node_policy_one(Scene, name), "create_node", Len(heap_nodes) + 1)

\* the caller names ports that exist
CreateConnection(node_in, port_index_in, node_out, port_index_out, converter, max_conns) ==
    /\ Len(heap_conns) < max_conns
    /\ port_index_in < n_ports(heap_nodes[node_in].model.name, "in")
    /\ port_index_out < n_ports(heap_nodes[node_out].model.name, "out")
    /\ Done(create_connection(Scene, node_in, port_index_in,
                              node_out, port_index_out, converter),
            "create_connection", Len(heap_conns) + 1)

DeleteConnection(c) == Done(delete_connection(Scene, c), "delete_connection", c)

RemoveNode(n) == Done(remove_node(Scene, n), "remove_node", n)

ClearScene == Done(clear_scene(Scene), "clear_scene", 0)

\* an id no node of the scene has, and the entry of a node whose model name
\* the registry does not know
UnknownId == 0
UnregisteredNode == [id |-> UnknownId, name |-> "Unregistered", number |-> None]

\* a document: entries of nodes the scene has held, as they were saved, in
\* any order, or an entry of an unregistered model alone or after another
\* entry, and at most one connection
DocNodeLists ==
    {<<>>, <<UnregisteredNode>>}
    \cup {<<node_save(heap_nodes[u])>> : u \in 1..Len(heap_nodes)}
    \cup {<<node_save(heap_nodes[u]), UnregisteredNode>> : u \in 1..Len(heap_nodes)}
    \cup {<<node_save(heap_nodes[p[1]]), node_save(heap_nodes[p[2]])>> :
            p \in {q \in (1..Len(heap_nodes)) \X (1..Len(heap_nodes)) :
                     heap_nodes[q[1]].uid /= heap_nodes[q[2]].uid}}

DocIds(ns) == {ns[i].id : i \in 1..Len(ns)}
DocName(ns, u) == ns[CHOOSE i \in 1..Len(ns) : ns[i].id = u].name

\* the ids a connection entry may name: of the document's nodes, of the
\* scene's nodes, or of no node at all
ConnIds(ns) == DocIds(ns) \cup {nodes[i].uid : i \in 1..Len(nodes)} \cup {UnknownId}

DocConnLists(ns) ==
    {<<>>} \cup
    {<<[in_id |-> a, in_index |-> i, out_id |-> b, out_index |-> 0, converter |-> cv]>> :
        a \in ConnIds(ns), i \in 0..1, b \in ConnIds(ns),
        cv \in {Absent, ConverterJson(IntegerTypeId, DecimalTypeId)}}

\* the model name of the node a connection entry will find under id u
IdName(ns, u) ==
    IF u \in DocIds(ns) THEN DocName(ns, u)
    ELSE IF DictHas(nodes, u) THEN heap_nodes[DictGet(nodes, u)].model.name
    ELSE "Unregistered"

\* the port indices of a document's connections exist on the nodes they name
DocOk(doc, max_nodes, max_conns) ==
    /\ Len(heap_nodes) + Len(doc.nodes) <= max_nodes
    /\ Len(heap_conns) + Len(doc.connections) <= max_conns
    /\ \A i \in 1..Len(doc.connections) :
          \/ IdName(doc.nodes, doc.connections[i].in_id) \notin ModelNames
          \/ IdName(doc.nodes, doc.connections[i].out_id) \notin ModelNames
          \/ /\ doc.connections[i].in_index <
                   n_ports(IdName(doc.nodes, doc.connections[i].in_id), "in")
             /\ doc.connections[i].out_index <
                   n_ports(IdName(doc.nodes, doc.connections[i].out_id), "out")

\* a document as a graph: its entries as sets
DocGraph(doc) ==
    [nodes |-> {doc.nodes[i] : i \in 1..Len(doc.nodes)},
     connections |-> {doc.connections[i] : i \in 1..Len(doc.connections)}]

Loaded(r, op, graph) ==
    /\ nodes' = r.nodes
    /\ connections' = r.connections
    /\ heap_nodes' = r.h
    /\ heap_conns' = r.cs
    /\ last' = [op |-> op, arg |-> 0, raised |-> r.raised, visited |-> <<>>,
                doc |-> graph, port |-> "none", emitted |-> <<>>, calls |-> r.calls,
                data |-> None]

LoadFromMemory(doc, max_nodes, max_conns) ==
    /\ DocOk(doc, max_nodes, max_conns)
    /\ Loaded(load_from_memory(Scene, doc), "load_from_memory", DocGraph(doc))

\* FlowScene.load of a file that holds the document
Load(doc, max_nodes, max_conns) ==
    /\ DocOk(doc, max_nodes, max_conns)
    /\ Loaded(load(Scene, TRUE, doc), "load", DocGraph(doc))

\* FlowScene.load of a file name under which there is no file
LoadNoFile == Loaded(load(Scene, FALSE, NoGraph), "load_no_file", NoGraph)

\* an operation on one node that leaves the collections alone
NodeDone(r, op, n) ==
    /\ heap_nodes' = r.h
    /\ last' = [op |-> op, arg |-> n, raised |-> r.raised, visited |-> <<>>,
                doc |-> NoGraph, port |-> "none", emitted |-> <<>>, calls |-> <<>>,
                data |-> None]
    /\ UNCHANGED <<nodes, connections, heap_conns>>

\* NumberSourceDataModel.on_text_edited: the new number, then data_updated
OnTextEdited(n, v) ==
    /\ heap_nodes[n].model.name = "NumberSource"
    /\ NodeDone(
          on_data_updated([heap_nodes EXCEPT ![n].model = source_set_number(@, v)],
                          heap_conns, n, 0, RecursionLimit),
          "on_text_edited", n)

\* the values a caller hands to set_in_data
InData ==
    {None, DecimalData(FromInt(0)), DecimalData(FromInt(2)),
     IntegerData(FromInt(0)), IntegerData(FromInt(2))}

\* the model of node n after a call of its set_in_data
called(h, n, r) == [h |-> [h EXCEPT ![n].model = r.model], raised |-> r.raised]

\* set_in_data of the model of node n, a node nothing is connected to
SetInData(n, data, port_index) ==
    /\ port_index < n_ports(heap_nodes[n].model.name, "in")
    /\ all_connections(heap_nodes[n]) = <<>>
    /\ NodeDone(called(heap_nodes, n, set_in_data(heap_nodes[n].model, data, port_index)),
                "set_in_data", n)

SceneKinds == {"NumberSource", "Modulo", "NumberDisplay"}

Next ==
    \/ \E name \in SceneKinds : CreateNode(name, MaxNodes)
    \/ \E ni \in SceneNodes, no \in SceneNodes, pi \in 0..1, conv \in Converters :
          CreateConnection(ni, pi, no, 0, conv, MaxConns)
    \/ \E c \in 1..Len(heap_conns) : DeleteConnection(c)
    \/ \E n \in SceneNodes : RemoveNode(n)
    \/ ClearScene

Spec == Init /\ [][Next]_vars

\* the same scene within smaller bounds, with sources that are edited
NextCore ==
    \/ \E name \in SceneKinds : CreateNode(name, CoreNodes)
    \/ \E ni \in SceneNodes, no \in SceneNodes, pi \in 0..1, conv \in Converters :
          CreateConnection(ni, pi, no, 0, conv, CoreConns)
    \/ \E c \in 1..Len(heap_conns) : DeleteConnection(c)
    \/ \E n \in SceneNodes : RemoveNode(n)
    \/ \E n \in SceneNodes, v \in CoreValues : OnTextEdited(n, v)
    \/ ClearScene

SpecCore == Init /\ [][NextCore]_vars

\* the scene with documents loaded into it
NextLoad ==
    \/ \E name \in SceneKinds : CreateNode(name, LoadNodes)
    \/ \E ni \in SceneNodes, no \in SceneNodes, pi \in 0..1, conv \in Converters :
          CreateConnection(ni, pi, no, 0, conv, LoadConns)
    \/ \E ns \in DocNodeLists : \E ks \in DocConnLists(ns) :
          LoadFromMemory([nodes |-> ns, connections |-> ks], LoadNodes, LoadConns)
    \/ \E ns \in DocNodeLists : \E ks \in DocConnLists(ns) :
          Load([nodes |-> ns, connections |-> ks], LoadNodes, LoadConns)
    \/ LoadNoFile
    \/ ClearScene

SpecLoad == Init /\ [][NextLoad]_vars

\* the calculator's flow: sources edited while they feed operations
FlowKinds == {"NumberSource", "Addition", "Division"}

NextFlow ==
    \/ \E name \in FlowKinds : CreateNode(name, FlowNodes)
    \/ \E ni \in SceneNodes, no \in SceneNodes, pi \in 0..1, conv \in Converters :
          CreateConnection(ni, pi, no, 0, conv, FlowConns)
    \/ \E c \in 1..Len(heap_conns) : DeleteConnection(c)
    \/ \E n \in SceneNodes, v \in SourceValues : OnTextEdited(n, v)

SpecFlow == Init /\ [][NextFlow]_vars

Visited(r) ==
    /\ last' = [op |-> "iterate", arg |-> 0, raised |-> r.raised, visited |-> r.visited,
                doc |-> NoGraph, port |-> "none", emitted |-> <<>>, calls |-> <<>>,
                data |-> None]
    /\ UNCHANGED <<nodes, connections, heap_nodes, heap_conns>>

Iterate == Visited(iterate_over_node_data_dependent_order(Scene))

\* graphs built in any order, and their traversal
TravKinds == {"NumberSource", "Addition", "NumberDisplay"}

NextTrav ==
    \/ \E name \in TravKinds : CreateNode(name, TravNodes)
    \/ \E ni \in SceneNodes, no \in SceneNodes, pi \in 0..1 :
          CreateConnection(ni, pi, no, 0, NoConverter, TravConns)
    \/ Iterate

SpecTrav == Init /\ [][NextTrav]_vars

\* a second scene, empty, that shares nothing with the first but the heap
EmptyScene(s) == [s EXCEPT !.nodes = <<>>, !.connections = <<>>, !.raised = "none"]

SaveFailed(saved) ==
    /\ last' = [op |-> "save_to_memory", arg |-> 0, raised |-> saved.raised,
                visited |-> <<>>, doc |-> NoGraph, port |-> "none", emitted |-> <<>>, calls |-> <<>>,
                data |-> None]
    /\ UNCHANGED <<nodes, connections, heap_nodes, heap_conns>>

save_and_load(s, saved) ==
    IF saved.raised /= "none" THEN SaveFailed(saved)
    ELSE Loaded(load_from_memory(EmptyScene(s), saved.doc), "round_trip", GraphOf(s))

\* save_to_memory, and load_from_memory of the document into an empty scene,
\* which is the scene from then on
RoundTrip(plain_dict, max_nodes) ==
    /\ Len(heap_nodes) <= max_nodes
    /\ save_and_load(Scene, save_to_memory(Scene, plain_dict))

\* graphs that are saved and loaded again
NextRound ==
    \/ \E name \in SceneKinds : CreateNode(name, RoundNodes)
    \/ \E ni \in SceneNodes, no \in SceneNodes, pi \in 0..1, conv \in Converters :
          CreateConnection(ni, pi, no, 0, conv, RoundConns)
    \/ \E n \in SceneNodes, v \in CoreValues : OnTextEdited(n, v)
    \/ \E plain_dict \in BOOLEAN : RoundTrip(plain_dict, RoundNodes)

SpecRound == Init /\ [][NextRound]_vars

\* sources whose output has policy One or Many, and what they feed
PolicyKinds == {"NumberSource", "NumberDisplay", "Addition"}

NextPolicy ==
    \/ \E name \in PolicyKinds : CreateNode(name, PolicyNodes)
    \/ CreateNodePolicyOne("NumberSource", PolicyNodes)
    \/ \E ni \in SceneNodes, no \in SceneNodes, pi \in 0..1 :
          CreateConnection(ni, pi, no, 0, NoConverter, PolicyConns)
    \/ \E c \in 1..Len(heap_conns) : DeleteConnection(c)

SpecPolicy == Init /\ [][NextPolicy]_vars

\* the node and the index of the port of connection c on its side port_type
PortNode(c, port_type) ==
    IF port_type = "in" THEN heap_conns[c].in_node ELSE heap_conns[c].out_node
PortIndexOf(c, port_type) ==
    IF port_type = "in" THEN heap_conns[c].in_index ELSE heap_conns[c].out_index

PortDone(n, port_type, port_index, c, r) ==
    /\ heap_nodes' =
          IF port_type = "in"
          THEN [heap_nodes EXCEPT ![n].in_ports[port_index + 1] = r.connections]
          ELSE [heap_nodes EXCEPT ![n].out_ports[port_index + 1] = r.connections]
    /\ last' = [op |-> "add_connection", arg |-> c, raised |-> r.raised,
                visited |-> <<>>, doc |-> NoGraph, port |-> port_type,
                emitted |-> r.emitted, calls |-> <<>>, data |-> None]
    /\ UNCHANGED <<nodes, connections, heap_conns>>

\* Port.add_connection(c) on the port that connection c names on one side
AddConnection(c, port_type) ==
    PortDone(PortNode(c, port_type), port_type, PortIndexOf(c, port_type), c,
             port_add_connection(
                 port_connections(heap_nodes[PortNode(c, port_type)], port_type,
                                  PortIndexOf(c, port_type)), c))

\* connections registered with their ports by the scene and by hand
NextPort ==
    \/ \E name \in SceneKinds : CreateNode(name, PortNodes)
    \/ \E ni \in SceneNodes, no \in SceneNodes, pi \in 0..1 :
          CreateConnection(ni, pi, no, 0, NoConverter, PortConns)
    \/ \E c \in 1..Len(heap_conns) : DeleteConnection(c)
    \/ \E c \in 1..Len(heap_conns), port_type \in {"in", "out"} :
          AddConnection(c, port_type)

SpecPort == Init /\ [][NextPort]_vars

\* the values of the IntegerData an Integer-typed output emits
IntegerValues == {-1, 0, 2}

\* the converters a connection from an Integer output to a Decimal input is
\* given: the one main() registers for the pair, and integer_to_decimal
IntegerToDecimal == {RegisteredConverter(IntegerTypeId, DecimalTypeId), "integer_to_decimal"}

\* Connection.propagate_data(IntegerData(v)), as the on_data_updated of an
\* out node whose Integer output holds IntegerData(v) calls it
PropagateData(c, v) ==
    /\ data_type(heap_nodes[heap_conns[c].out_node].model.name, "out", 0) = IntegerTypeId
    /\ heap_nodes' = connection_propagate_data(heap_nodes, heap_conns, heap_conns[c],
                                               IntegerData(FromInt(v)), RecursionLimit).h
    /\ last' = [op |-> "propagate_data", arg |-> c,
                raised |-> connection_propagate_data(
                               heap_nodes, heap_conns, heap_conns[c],
                               IntegerData(FromInt(v)), RecursionLimit).raised,
                visited |-> <<>>, doc |-> NoGraph, port |-> "none", emitted |-> <<>>, calls |-> <<>>,
                data |-> IntegerData(FromInt(v))]
    /\ UNCHANGED <<nodes, connections, heap_conns>>

ConvKinds == {"Modulo", "NumberDisplay", "Addition"}

\* Integer outputs connected to Decimal inputs through a converter
NextConv ==
    \/ \E name \in ConvKinds : CreateNode(name, ConvNodes)
    \/ \E ni \in SceneNodes, no \in SceneNodes, pi \in 0..1, conv \in IntegerToDecimal :
          CreateConnection(ni, pi, no, 0, conv, ConvConns)
    \/ \E c \in 1..Len(heap_conns), v \in IntegerValues : PropagateData(c, v)

SpecConv == Init /\ [][NextConv]_vars

\* FlowScene.restore_node of one node entry
RestoreNode(node_json, max_nodes) ==
    /\ Len(heap_nodes) < max_nodes
    /\ Done(restore_node(Scene, node_json), "restore_node", Len(heap_nodes) + 1)

IdKinds == {"NumberSource", "NumberDisplay"}

\* nodes created, restored and removed
NextIds ==
    \/ \E name \in IdKinds : CreateNode(name, IdNodes)
    \/ \E ni \in SceneNodes, no \in SceneNodes :
          CreateConnection(ni, 0, no, 0, NoConverter, IdConns)
    \/ \E n \in SceneNodes : RemoveNode(n)
    \/ \E u \in 1..Len(heap_nodes) : RestoreNode(node_save(heap_nodes[u]), IdNodes)
    \/ RestoreNode(UnregisteredNode, IdNodes)

SpecIds == Init /\ [][NextIds]_vars

\* nodes created, restored and removed, and remove_node of nodes the scene
\* holds no more
NextRemove ==
    \/ \E name \in IdKinds : CreateNode(name, RemoveNodes)
    \/ \E ni \in SceneNodes, no \in SceneNodes :
          CreateConnection(ni, 0, no, 0, NoConverter, RemoveConns)
    \/ \E n \in 1..Len(heap_nodes) : RemoveNode(n)
    \/ \E u \in 1..Len(heap_nodes) : RestoreNode(node_save(heap_nodes[u]), RemoveNodes)

SpecRemove == Init /\ [][NextRemove]_vars

\* a read of can_connect of a port of node n
CanConnect(n, port_type, port_index) ==
    /\ port_index < n_ports(heap_nodes[n].model.name, port_type)
    /\ last' = [op |-> "can_connect", arg |-> n,
                raised |-> can_connect(heap_nodes[n], port_type, port_index).raised,
                visited |-> <<port_index>>, doc |-> NoGraph, port |-> port_type,
                emitted |-> <<can_connect(heap_nodes[n], port_type, port_index).value>>,
                calls |-> <<>>, data |-> None]
    /\ UNCHANGED <<nodes, connections, heap_nodes, heap_conns>>

\* ports of either policy, filled and read
NextCan ==
    \/ \E name \in PolicyKinds : CreateNode(name, CanNodes)
    \/ CreateNodePolicyOne("NumberSource", CanNodes)
    \/ \E ni \in SceneNodes, no \in SceneNodes, pi \in 0..1 :
          CreateConnection(ni, pi, no, 0, NoConverter, CanConns)
    \/ \E n \in SceneNodes, port_type \in {"in", "out"}, pi \in 0..1 :
          CanConnect(n, port_type, pi)

SpecCan == Init /\ [][NextCan]_vars

\* the start of a wire at a port of node n
CreateConnectionNode(connected_port, n, port_index, max_conns) ==
    /\ Len(heap_conns) < max_conns
    /\ port_index < n_ports(heap_nodes[n].model.name, connected_port)
    /\ Done(create_connection_node(Scene, connected_port, n, port_index),
            "create_connection_node", Len(heap_conns) + 1)

Saved(saved) ==
    /\ last' = [op |-> "save_to_memory", arg |-> 0, raised |-> saved.raised,
                visited |-> <<>>, doc |-> saved.doc, port |-> "none", emitted |-> <<>>, calls |-> <<>>,
                data |-> None]
    /\ UNCHANGED <<nodes, connections, heap_nodes, heap_conns>>

\* FlowScene.save_to_memory; the document it returns is kept in last.doc
SaveToMemory(plain_dict) == Saved(save_to_memory(Scene, plain_dict))

\* scenes with finished and unfinished connections, saved
NextSave ==
    \/ \E name \in IdKinds : CreateNode(name, SaveNodes)
    \/ \E ni \in SceneNodes, no \in SceneNodes :
          CreateConnection(ni, 0, no, 0, NoConverter, SaveConns)
    \/ \E n \in SceneNodes, connected_port \in {"in", "out"} :
          CreateConnectionNode(connected_port, n, 0, SaveConns)
    \/ \E plain_dict \in BOOLEAN : SaveToMemory(plain_dict)

SpecSave == Init /\ [][NextSave]_vars

\* one binary operation and the calls of its set_in_data
NextCalc ==
    \/ \E name \in MathNames : CreateNode(name, CalcNodes)
    \/ \E n \in SceneNodes, data \in InData, pi \in 0..1 : SetInData(n, data, pi)

SpecCalc == Init /\ [][NextCalc]_vars

\* documents of up to two nodes and a connection, loaded into a scene
NextOrder ==
    \/ \E name \in IdKinds : CreateNode(name, OrderNodes)
    \/ \E ns \in DocNodeLists : \E ks \in DocConnLists(ns) :
          LoadFromMemory([nodes |-> ns, connections |-> ks], OrderNodes, OrderConns)

SpecOrder == Init /\ [][NextOrder]_vars

\* wires started, connections made, and both deleted
NextWire ==
    \/ \E name \in SceneKinds : CreateNode(name, WireNodes)
    \/ \E ni \in SceneNodes, no \in SceneNodes, conv \in Converters :
          CreateConnection(ni, 0, no, 0, conv, WireConns)
    \/ \E n \in SceneNodes, connected_port \in {"in", "out"} :
          CreateConnectionNode(connected_port, n, 0, WireConns)
    \/ \E c \in 1..Len(heap_conns) : DeleteConnection(c)

SpecWire == Init /\ [][NextWire]_vars

\* scenes of connections and of wires with one end, cleared
NextClear ==
    \/ \E name \in SceneKinds : CreateNode(name, ClearNodes)
    \/ \E ni \in SceneNodes, no \in SceneNodes, conv \in Converters :
          CreateConnection(ni, 0, no, 0, conv, ClearConns)
    \/ \E n \in SceneNodes, connected_port \in {"in", "out"} :
          CreateConnectionNode(connected_port, n, 0, ClearConns)
    \/ ClearScene

SpecClear == Init /\ [][NextClear]_vars

\* the texts typed into a source
SourceTexts == {0, 2, 1234565, 1234567}

Restored(heap, n, data) ==
    /\ heap_nodes' = heap
    /\ last' = [op |-> "restore", arg |-> n, raised |-> "none", visited |-> <<>>,
                doc |-> NoGraph, port |-> "none", emitted |-> <<>>, calls |-> <<>>,
                data |-> data]
    /\ UNCHANGED <<nodes, connections, heap_conns>>

\* restore(save()) of source n into a NumberSource just constructed, which is
\* kept beside the scene's nodes; last.data is the output of n
RestoreSaved(n, max_nodes) ==
    /\ heap_nodes[n].model.name = "NumberSource"
    /\ Len(heap_nodes) < max_nodes
    /\ Restored(Append(heap_nodes,
                        [NewNode(UnknownId, "NumberSource") EXCEPT
                            !.model = source_restore(@, node_save(heap_nodes[n]).number)]),
                Len(heap_nodes) + 1, out_data(heap_nodes[n].model))

\* restore of a state that has no "number" into source n; last.data is the
\* output n had
RestoreWithoutNumber(n) ==
    /\ heap_nodes[n].model.name = "NumberSource"
    /\ Restored([heap_nodes EXCEPT ![n].model = source_restore(@, None)],
                n, out_data(heap_nodes[n].model))

\* sources edited, saved and restored
NextSource ==
    \/ CreateNode("NumberSource", SourceNodes)
    \/ \E n \in SceneNodes, v \in SourceTexts : OnTextEdited(n, v)
    \/ \E n \in SceneNodes : RestoreSaved(n, SourceNodes)
    \/ \E n \in SceneNodes : RestoreWithoutNumber(n)

SpecSource == Init /\ [][NextSource]_vars

(***************************************************************************)
(* The properties.                                                         *)
(***************************************************************************)
\* the connections that have an end at node n
Touching(n) ==
    {c \in 1..Len(heap_conns) : heap_conns[c].in_node = n \/ heap_conns[c].out_node = n}

\* the connections some port of node m holds
Held(m) == {all_connections(heap_nodes[m])[i] :
               i \in 1..Len(all_connections(heap_nodes[m]))}

\* C1: every input port of every node of the scene holds at most one
\* Complete connection, whatever create_connection, delete_connection and
\* remove_node calls came before
C1_InputHoldsAtMostOne ==
    \A n \in SceneNodes : \A i \in 1..Len(heap_nodes[n].in_ports) :
        Cardinality({j \in 1..Len(heap_nodes[n].in_ports[i]) :
                        IsComplete(heap_conns[heap_nodes[n].in_ports[i][j]])}) <= 1

\* two connections made by two create_connection calls that both returned
\* sit on one input port and in the collection
C1_TwoOnOneInput ==
    \E n \in SceneNodes : \E i \in 1..Len(heap_nodes[n].in_ports) :
        /\ Len(heap_nodes[n].in_ports[i]) = 2
        /\ heap_nodes[n].in_ports[i][1] /= heap_nodes[n].in_ports[i][2]
        /\ InSeq(heap_nodes[n].in_ports[i][1], connections)
        /\ InSeq(heap_nodes[n].in_ports[i][2], connections)

\* C2: each Complete connection of the connection collection has its
\* out-node and its in-node among the nodes of the node collection
C2_EndpointsInScene ==
    \A i \in 1..Len(connections) :
        IsComplete(heap_conns[connections[i]]) =>
            /\ heap_conns[connections[i]].in_node \in SceneNodes
            /\ heap_conns[connections[i]].out_node \in SceneNodes

\* a document was loaded into a scene that holds a connection, and the
\* connection's source is no longer the node the collection has under its id
C2_LoadedOverConnectedNode ==
    /\ last.op = "load_from_memory"
    /\ last.raised = "none"
    /\ \E i \in 1..Len(connections) :
          /\ heap_conns[connections[i]].out_node \notin SceneNodes
          /\ DictHas(nodes, heap_nodes[heap_conns[connections[i]].out_node].uid)

\* C3: once remove_node(n) has returned, n is out of the node collection, no
\* connection of the collection has an end at n, and no port of a remaining
\* node holds a connection with an end at n
C3_RemoveNodeCascades ==
    (last.op = "remove_node" /\ last.raised = "none") =>
        /\ last.arg \notin SceneNodes
        /\ \A i \in 1..Len(connections) : connections[i] \notin Touching(last.arg)
        /\ \A m \in SceneNodes : Held(m) \cap Touching(last.arg) = {}

\* remove_node returned, and the out port of a number source that is still in
\* the scene holds a connection into the removed node; every connection ever
\* made came from a number source, so the graph never had a cycle
C3_OrphanSurvivesRemoveNode ==
    /\ last.op = "remove_node"
    /\ last.raised = "none"
    /\ \A c \in 1..Len(heap_conns) :
          heap_nodes[heap_conns[c].out_node].model.name = "NumberSource"
    /\ \E m \in SceneNodes :
          /\ heap_nodes[m].model.name = "NumberSource"
          /\ \E c \in Held(m) : heap_conns[c].in_node = last.arg

\* the value a model keeps for the input port_index
StoredInput(m, port_index) ==
    IF m.name \in MathNames THEN (IF port_index = 0 THEN m.number1 ELSE m.number2)
    ELSE m.number

\* the source's current output as the connection delivers it
Delivered(k) ==
    apply_converter(k.converter, out_data(heap_nodes[k.out_node].model)).data

\* C4: when create_connection has returned and the source's out_data is not
\* empty, the destination model's stored input at in_index is the source's
\* current output, converted when the connection has a converter
C4_FreshConnectionNotStale ==
    (/\ last.op = "create_connection"
     /\ last.raised = "none"
     /\ out_data(heap_nodes[heap_conns[last.arg].out_node].model) /= None)
    => StoredInput(heap_nodes[heap_conns[last.arg].in_node].model,
                   heap_conns[last.arg].in_index) = Delivered(heap_conns[last.arg])

\* create_connection has returned for a connection with a converter from a
\* source that has a value, and the destination holds the converted value
C4_ConvertedValueArrived ==
    /\ last.op = "create_connection"
    /\ last.raised = "none"
    /\ heap_conns[last.arg].converter = "decimal_to_integer"
    /\ out_data(heap_nodes[heap_conns[last.arg].out_node].model) /= None
    /\ StoredInput(heap_nodes[heap_conns[last.arg].in_node].model,
                   heap_conns[last.arg].in_index).type = "integer"

\* the node a connection of the collection brings to input port_index of n,
\* when the port holds exactly one connection, it has no converter and it is
\* in the collection; 0 otherwise
Feeder(n, port_index) ==
    IF /\ Len(heap_nodes[n].in_ports[port_index + 1]) = 1
       /\ InSeq(heap_nodes[n].in_ports[port_index + 1][1], connections)
       /\ heap_conns[heap_nodes[n].in_ports[port_index + 1][1]].converter = NoConverter
    THEN heap_conns[heap_nodes[n].in_ports[port_index + 1][1]].out_node
    ELSE 0

IsSource(n) == n /= 0 /\ heap_nodes[n].model.name = "NumberSource"

\* C5: an Addition whose input 0 is connected to a source with a and whose
\* input 1 is connected to a source with b puts out DecimalData(a + b) and is
\* Valid
C5_AdditionOfTwoSources ==
    \A n \in SceneNodes :
        (/\ heap_nodes[n].model.name = "Addition"
         /\ IsSource(Feeder(n, 0))
         /\ IsSource(Feeder(n, 1)))
        => /\ out_data(heap_nodes[n].model) =
                 DecimalData(RatAdd(heap_nodes[Feeder(n, 0)].model.number.number,
                                    heap_nodes[Feeder(n, 1)].model.number.number))
           /\ heap_nodes[n].model.validation_state = "valid"

\* Source(1.0) and Source(2.0) are connected to the two inputs of an Addition
C5_OneAndTwoConnected ==
    \E n \in SceneNodes :
        /\ heap_nodes[n].model.name = "Addition"
        /\ IsSource(Feeder(n, 0))
        /\ IsSource(Feeder(n, 1))
        /\ heap_nodes[Feeder(n, 0)].model.number = DecimalData(FromInt(1))
        /\ heap_nodes[Feeder(n, 1)].model.number = DecimalData(FromInt(2))

\* C6: a Division whose input 0 is connected to a source and whose input 1
\* is connected to a source with zero is in Error and puts out None
C6_DivisionByZeroIsError ==
    \A n \in SceneNodes :
        (/\ heap_nodes[n].model.name = "Division"
         /\ IsSource(Feeder(n, 0))
         /\ IsSource(Feeder(n, 1))
         /\ IsZero(heap_nodes[Feeder(n, 1)].model.number))
        => /\ heap_nodes[n].model.validation_state = "error"
           /\ out_data(heap_nodes[n].model) = None

\* a source with a dividend other than zero and a second source with zero
\* are connected to the two inputs of a Division
C6_NonZeroOverZeroConnected ==
    \E n \in SceneNodes :
        /\ heap_nodes[n].model.name = "Division"
        /\ IsSource(Feeder(n, 0))
        /\ IsSource(Feeder(n, 1))
        /\ Feeder(n, 0) /= Feeder(n, 1)
        /\ ~IsZero(heap_nodes[Feeder(n, 0)].model.number)
        /\ IsZero(heap_nodes[Feeder(n, 1)].model.number)

\* C7: once delete_connection has returned for a connection into an input of
\* a binary-operation node, and no other connection is on that input, the
\* node holds no value for the input, puts out None and is in Warning
C7_DisconnectRetracts ==
    (/\ last.op = "delete_connection"
     /\ last.raised = "none"
     /\ heap_nodes[heap_conns[last.arg].in_node].model.name \in MathNames
     /\ \A j \in 1..Len(port_connections(heap_nodes[heap_conns[last.arg].in_node], "in",
                                         heap_conns[last.arg].in_index)) :
           port_connections(heap_nodes[heap_conns[last.arg].in_node], "in",
                            heap_conns[last.arg].in_index)[j] = last.arg)
    => /\ StoredInput(heap_nodes[heap_conns[last.arg].in_node].model,
                      heap_conns[last.arg].in_index) = None
       /\ out_data(heap_nodes[heap_conns[last.arg].in_node].model) = None
       /\ heap_nodes[heap_conns[last.arg].in_node].model.validation_state = "warning"

\* delete_connection has returned for a connection from a number source into
\* a binary-operation node; the connection is still on the node's input port
\* and the node still holds the connection's value
C7_ValueRetainedAfterDelete ==
    /\ last.op = "delete_connection"
    /\ last.raised = "none"
    /\ InSeq(last.arg, port_connections(heap_nodes[heap_conns[last.arg].in_node], "in",
                                        heap_conns[last.arg].in_index))
    /\ heap_nodes[heap_conns[last.arg].in_node].model.name \in MathNames
    /\ \A c \in 1..Len(heap_conns) :
          heap_nodes[heap_conns[c].out_node].model.name = "NumberSource"
    /\ StoredInput(heap_nodes[heap_conns[last.arg].in_node].model,
                   heap_conns[last.arg].in_index) = Delivered(heap_conns[last.arg])

\* a DecimalData or an IntegerData
Compatible(d) == d /= None /\ d.type \in {"decimal", "integer"}

\* C8: a binary-operation model with a missing input is in Warning and puts
\* out None; it puts out a value only when both inputs hold a compatible
\* value and it is Valid
C8_OutputNeedsBothInputs ==
    \A n \in SceneNodes :
        heap_nodes[n].model.name \in MathNames =>
            /\ (heap_nodes[n].model.number1 = None \/ heap_nodes[n].model.number2 = None)
               => /\ heap_nodes[n].model.validation_state = "warning"
                  /\ out_data(heap_nodes[n].model) = None
            /\ out_data(heap_nodes[n].model) /= None
               => /\ Compatible(heap_nodes[n].model.number1)
                  /\ Compatible(heap_nodes[n].model.number2)
                  /\ heap_nodes[n].model.validation_state = "valid"

\* set_in_data has returned on a model that holds a value on its first input
\* and nothing on its second
C8_OneInputMissing ==
    /\ last.op = "set_in_data"
    /\ last.raised = "none"
    /\ heap_nodes[last.arg].model.number1 /= None
    /\ heap_nodes[last.arg].model.number2 = None

\* the nodes that the connections of the collection lead to from a node of S
Successors(S) ==
    {heap_conns[connections[i]].in_node :
        i \in {j \in 1..Len(connections) : heap_conns[connections[j]].out_node \in S}}

RECURSIVE ReachedFrom(_, _)
ReachedFrom(S, k) == IF k = 0 THEN S ELSE ReachedFrom(S \cup Successors(S), k - 1)

\* no node of the scene reaches itself along connections of the collection
Acyclic == \A n \in SceneNodes : n \notin ReachedFrom(Successors({n}), Len(heap_nodes))

\* the nodes that feed an input of n through a connection of the collection
Feeders(n) ==
    {heap_conns[connections[i]].out_node :
        i \in {j \in 1..Len(connections) : heap_conns[connections[j]].in_node = n}}

\* C9: on an acyclic graph the traversal calls the visitor on a node only
\* after it has called it on every node that feeds one of the node's inputs
C9_FeedersVisitedFirst ==
    (last.op = "iterate" /\ Acyclic) =>
        \A j \in 1..Len(last.visited) : \A f \in Feeders(last.visited[j]) :
            \E i \in 1..(j - 1) : last.visited[i] = f

\* the traversal ran over the chain source -> addition -> display whose nodes
\* were made in another order than the chain's
C9_ChainMadeOutOfOrder ==
    /\ last.op = "iterate"
    /\ Acyclic
    /\ \E a \in SceneNodes, b \in SceneNodes, c \in SceneNodes :
          /\ heap_nodes[a].model.name = "NumberSource"
          /\ heap_nodes[b].model.name = "Addition"
          /\ heap_nodes[c].model.name = "NumberDisplay"
          /\ a \in Feeders(b)
          /\ b \in Feeders(c)
          /\ (b < a \/ c < b)

\* C10: on an acyclic graph the traversal calls the visitor exactly once for
\* every node of the node collection
C10_EachNodeVisitedOnce ==
    (last.op = "iterate" /\ Acyclic) =>
        /\ Len(last.visited) = Cardinality(SceneNodes)
        /\ \A n \in SceneNodes :
              Cardinality({j \in 1..Len(last.visited) : last.visited[j] = n}) = 1

\* the traversal ran over three nodes joined by two connections
C10_ThreeNodesTraversed ==
    /\ last.op = "iterate"
    /\ Acyclic
    /\ Cardinality(SceneNodes) = 3
    /\ Len(connections) = 2
    /\ Len(last.visited) = 3

\* C11: the traversal ends on every graph, cycles included, within as many
\* passes of its while loop as the scene has nodes
C11_TraversalEnds ==
    /\ dependent_loop(heap_nodes, heap_conns, DictValues(nodes),
                      leaf_pass(heap_nodes, DictValues(nodes), <<>>),
                      Len(nodes)).raised = "none"
    /\ last.op = "iterate" => last.raised = "none"

\* the traversal has returned on a scene in which the ports of the nodes
\* form a cycle: some node's input holds a connection that leaves a node
\* fed, directly or through one more node, by the first
C11_TraversedACycle ==
    /\ last.op = "iterate"
    /\ \E n \in SceneNodes : \E c \in Held(n), d \in 1..Len(heap_conns) :
          /\ heap_conns[c].in_node = n
          /\ heap_conns[d].out_node = n
          /\ heap_conns[d].in_node = heap_conns[c].out_node
          /\ d \in Held(heap_conns[d].in_node)

\* C12: a graph saved with save_to_memory and loaded with load_from_memory
\* into an empty scene comes back with the same nodes (name, saved fields)
\* and the same connections (endpoints, converter type ids or none)
C12_RoundTrip ==
    /\ last.op = "save_to_memory" => last.raised = "none"
    /\ last.op = "round_trip" =>
          /\ last.raised = "none"
          /\ GraphOf(Scene) = last.doc

\* a graph with a connection that has no converter was saved, by a
\* save_to_memory that wrote the connection's entry, and loaded again
C12_ConnectionSavedAndLoaded ==
    /\ last.op = "round_trip"
    /\ \E k \in last.doc.connections : k.converter = Absent

LoadOps == {"load", "load_from_memory"}

\* a connection entry without its converter: the two ends and whether a
\* converter is named
Ends(k) == [in_id |-> k.in_id, in_index |-> k.in_index, out_id |-> k.out_id,
            out_index |-> k.out_index, converter |-> k.converter.present]

\* C13: a load, from a file or from memory, that returns leaves in the scene
\* exactly the nodes and the connections of the document
C13_LoadReplacesGraph ==
    (last.op \in LoadOps /\ last.raised = "none") =>
        /\ GraphOf(Scene).nodes = last.doc.nodes
        /\ {Ends(k) : k \in GraphOf(Scene).connections}
              = {Ends(k) : k \in last.doc.connections}

\* load_from_memory has returned and a node that is not in the document is
\* still in the scene
C13_OldNodeStillThere ==
    /\ last.op = "load_from_memory"
    /\ last.raised = "none"
    /\ \E i \in 1..Len(nodes) : nodes[i].uid \notin {n.id : n \in last.doc.nodes}

\* C14: a load that fails on the structure of the document (no such file, an
\* unregistered model, a connection that names an unknown node) leaves the
\* collections of nodes and connections as they were before it
C14_FailedLoadChangesNothing ==
    [][(\/ last'.op = "load_no_file"
        \/ last'.op \in LoadOps /\ last'.raised \in {"ValueError", "KeyError"})
       => (nodes' = nodes /\ connections' = connections)]_vars

\* load has failed on an unregistered model and the node whose entry came
\* before it in the document is in the scene
C14_HalfLoaded ==
    /\ last.op = "load"
    /\ last.raised = "ValueError"
    /\ nodes /= <<>>

\* the ids of the nodes a load restores from its document
RestoredIds == {n.id : n \in {m \in last.doc.nodes : m.name \in ModelNames}}

\* C15: a load of a document with an unregistered model, or with a
\* connection whose in_id or out_id is not the id of a restored node, ends in
\* an error, and the node or connection is not added
C15_BadEntryIsAnError ==
    last.op \in LoadOps =>
        /\ (\E n \in last.doc.nodes : n.name \notin ModelNames) =>
              /\ last.raised /= "none"
              /\ ~DictHas(nodes, UnknownId)
        /\ (\E k \in last.doc.connections :
                k.in_id \notin RestoredIds \/ k.out_id \notin RestoredIds) =>
              /\ last.raised /= "none"
              /\ \A c \in 1..Len(heap_conns) :
                    Ends(connection_save(heap_nodes, heap_conns[c]))
                        \notin {Ends(k) : k \in last.doc.connections}

\* load_from_memory has returned without an error on a document whose
\* connection names a node that is in the scene and not in the document
C15_ConnectionToOldNode ==
    /\ last.op = "load_from_memory"
    /\ last.raised = "none"
    /\ \E k \in last.doc.connections : k.in_id \notin RestoredIds
    /\ connections /= <<>>

\* the declared type ids of the two ports a connection joins
OutType(k) == data_type(heap_nodes[k.out_node].model.name, "out", k.out_index)
InType(k) == data_type(heap_nodes[k.in_node].model.name, "in", k.in_index)

\* C16: every connection of the scene joins ports of one type id, or carries
\* the converter registered for its (out type, in type) pair; a
\* create_connection on ports of differing type ids without such a converter
\* is rejected and attaches nothing
C16_TypesAgreeOrConverted ==
    /\ \A i \in 1..Len(connections) :
          \/ OutType(heap_conns[connections[i]]) = InType(heap_conns[connections[i]])
          \/ /\ heap_conns[connections[i]].converter /= NoConverter
             /\ heap_conns[connections[i]].converter
                   = RegisteredConverter(OutType(heap_conns[connections[i]]),
                                         InType(heap_conns[connections[i]]))
    /\ (/\ last.op = "create_connection"
        /\ OutType(heap_conns[last.arg]) /= InType(heap_conns[last.arg])
        /\ heap_conns[last.arg].converter = NoConverter)
       => (last.raised /= "none" /\ last.arg \notin Held(heap_conns[last.arg].in_node))

\* create_connection has returned with a connection from a source's Decimal
\* output to an Integer input of a Modulo and no converter
C16_DecimalIntoIntegerPort ==
    /\ last.op = "create_connection"
    /\ last.raised = "none"
    /\ InSeq(last.arg, connections)
    /\ heap_nodes[heap_conns[last.arg].out_node].model.name = "NumberSource"
    /\ heap_nodes[heap_conns[last.arg].in_node].model.name = "Modulo"
    /\ heap_conns[last.arg].converter = NoConverter

\* C17: an output port whose model reports policy One holds at most one
\* connection, whatever connections were created from it
C17_PolicyOneHoldsAtMostOne ==
    \A n \in SceneNodes :
        \A i \in 0..(n_ports(heap_nodes[n].model.name, "out") - 1) :
            port_out_connection_policy(heap_nodes[n].model, i) = "one"
                => Len(port_connections(heap_nodes[n], "out", i)) <= 1

\* create_connection has returned a second connection from an output port
\* of policy One, and both connections are in the scene
C17_TwoFromPolicyOne ==
    /\ last.op = "create_connection"
    /\ last.raised = "none"
    /\ port_out_connection_policy(heap_nodes[heap_conns[last.arg].out_node].model,
                                  heap_conns[last.arg].out_index) = "one"
    /\ Len(connections) = 2
    /\ \A i \in 1..2 : heap_conns[connections[i]].out_node = heap_conns[last.arg].out_node

\* C18: delete_connection of a connection that is not in the scene's
\* collection of connections does not return normally
C18_AbsentDeleteIsLoud ==
    [][(last'.op = "delete_connection" /\ ~InSeq(last'.arg, connections))
       => last'.raised /= "none"]_vars

\* delete_connection has returned normally for a connection that create_connection
\* never put into the collection and that its ports still hold
C18_AbsentDeleteReturned ==
    /\ last.op = "delete_connection"
    /\ last.raised = "none"
    /\ last.arg \in Held(heap_conns[last.arg].in_node)
    /\ last.arg \in Held(heap_conns[last.arg].out_node)

\* the list of the port that the last add_connection was called on
LastPort(h) == port_connections(h[PortNode(last.arg, last.port)], last.port,
                                PortIndexOf(last.arg, last.port))

NoDuplicates(q) == \A i \in 1..Len(q) : \A j \in 1..Len(q) : q[i] = q[j] => i = j

\* C19: add_connection with a connection the port already holds raises,
\* leaves the port's list as it was and emits no connection_created; no
\* port's list ever holds one connection twice
C19_DoubleRegistrationRaises ==
    /\ [](\A n \in 1..Len(heap_nodes) :
            /\ \A i \in 1..Len(heap_nodes[n].in_ports) : NoDuplicates(heap_nodes[n].in_ports[i])
            /\ \A i \in 1..Len(heap_nodes[n].out_ports) :
                  NoDuplicates(heap_nodes[n].out_ports[i]))
    /\ [][(/\ last'.op = "add_connection"
           /\ InSeq(last'.arg, port_connections(heap_nodes[PortNode(last'.arg, last'.port)],
                                                last'.port,
                                                PortIndexOf(last'.arg, last'.port))))
          => (/\ last'.raised = "ValueError"
              /\ last'.emitted = <<>>
              /\ heap_nodes' = heap_nodes)]_vars

\* add_connection was called with a connection its port held, after
\* create_connection had put it there
C19_RegisteredAgain ==
    /\ last.op = "add_connection"
    /\ last.raised = "ValueError"
    /\ InSeq(last.arg, LastPort(heap_nodes))
    /\ InSeq(last.arg, connections)

\* C20: an IntegerData sent over a connection from an Integer output to a
\* Decimal input with the converter registered for that pair arrives as a
\* DecimalData of the same number
C20_IntegerArrivesAsDecimal ==
    (/\ last.op = "propagate_data"
     /\ InType(heap_conns[last.arg]) = DecimalTypeId
     /\ heap_conns[last.arg].converter = RegisteredConverter(IntegerTypeId, DecimalTypeId))
    => /\ last.raised = "none"
       /\ StoredInput(heap_nodes[heap_conns[last.arg].in_node].model,
                      heap_conns[last.arg].in_index) = DecimalData(last.data.number)

\* the integer 2 was sent from a Modulo's output to a display over a
\* connection with the registered converter
C20_TwoSentToDisplay ==
    /\ last.op = "propagate_data"
    /\ last.data = IntegerData(FromInt(2))
    /\ heap_nodes[heap_conns[last.arg].in_node].model.name = "NumberDisplay"
    /\ heap_conns[last.arg].converter = RegisteredConverter(IntegerTypeId, DecimalTypeId)

\* the same, over a connection with integer_to_decimal_converter: it raises
\* as well
C20_IntegerToDecimalRaises ==
    /\ last.op = "propagate_data"
    /\ heap_conns[last.arg].converter = "integer_to_decimal"
    /\ last.raised = "TypeError"

\* C21: a Modulo whose two inputs are integers a and b has, once set_in_data
\* has run, the Integer output a mod b when b is not 0, and otherwise the
\* validation state Error and no output
C21_ModuloOfIntegers ==
    (/\ last.op = "set_in_data"
     /\ heap_nodes[last.arg].model.name = "Modulo"
     /\ heap_nodes[last.arg].model.number1.type = "integer"
     /\ heap_nodes[last.arg].model.number2.type = "integer")
    => /\ last.raised = "none"
       /\ IF heap_nodes[last.arg].model.number2.number.num /= 0
          THEN heap_nodes[last.arg].model.result
                  = IntegerData(RatMod(heap_nodes[last.arg].model.number1.number,
                                       heap_nodes[last.arg].model.number2.number))
          ELSE /\ heap_nodes[last.arg].model.validation_state = "error"
               /\ heap_nodes[last.arg].model.result = None

\* set_in_data has given a Modulo the integers 2 and 2
C21_ModuloOfTwoAndTwo ==
    /\ last.op = "set_in_data"
    /\ heap_nodes[last.arg].model.name = "Modulo"
    /\ heap_nodes[last.arg].model.number1 = IntegerData(FromInt(2))
    /\ heap_nodes[last.arg].model.number2 = IntegerData(FromInt(2))

\* the model has an input nothing was delivered to, or is a Division or a
\* Modulo whose divisor is a zero
DomainFailure(m) ==
    \/ m.number1 = None
    \/ m.number2 = None
    \/ m.name \in {"Division", "Modulo"} /\ m.number2.number.num = 0

\* C22: a set_in_data that leaves a model with an unwired input or with a
\* zero divisor raises nothing; the model's output is empty and its
\* validation state is not Valid
C22_DomainFailureStaysLocal ==
    (/\ last.op = "set_in_data"
     /\ heap_nodes[last.arg].model.name \in MathNames
     /\ DomainFailure(heap_nodes[last.arg].model))
    => /\ last.raised = "none"
       /\ heap_nodes[last.arg].model.result = None
       /\ heap_nodes[last.arg].model.validation_state /= "valid"

\* set_in_data has given a Division the integers 2 and 0
C22_IntegerDividedByZero ==
    /\ last.op = "set_in_data"
    /\ heap_nodes[last.arg].model.name = "Division"
    /\ heap_nodes[last.arg].model.number1 = IntegerData(FromInt(2))
    /\ heap_nodes[last.arg].model.number2 = IntegerData(FromInt(0))

\* C23: every key of the node collection is the id of the node filed under
\* it, no two nodes of the collection have one id, and the node create_node
\* has just made is in the collection and holds no connection
C23_KeysAreNodeIds ==
    /\ \A i \in 1..Len(nodes) : nodes[i].uid = heap_nodes[nodes[i].node].uid
    /\ \A i \in 1..Len(nodes) : \A j \in 1..Len(nodes) :
          heap_nodes[nodes[i].node].uid = heap_nodes[nodes[j].node].uid => i = j
    /\ last.op = "create_node" =>
          /\ last.arg \in SceneNodes
          /\ all_connections(heap_nodes[last.arg]) = <<>>

\* create_node has added a node to a scene from which a node was removed and
\* which holds a node that restore_node made
C23_CreatedAfterRemoveAndRestore ==
    /\ last.op = "create_node"
    /\ Len(nodes) = 2
    /\ Len(heap_nodes) > 2
    /\ \E i \in 1..Len(nodes) : nodes[i].uid /= nodes[i].node

\* the Complete connections of the collection
CompleteOnes == {i \in 1..Len(connections) : IsComplete(heap_conns[connections[i]])}

\* C24: save_to_memory returns a document with one entry for each node of
\* the collection and one for each Complete connection of the collection,
\* and none for a connection with one end unbound
C24_SavedExactlyOnce ==
    last.op = "save_to_memory" =>
        /\ last.raised = "none"
        /\ Len(last.doc.nodes) = Len(nodes)
        /\ \A i \in 1..Len(nodes) :
              Cardinality({j \in 1..Len(last.doc.nodes) :
                              last.doc.nodes[j] = node_save(heap_nodes[nodes[i].node])}) = 1
        /\ Len(last.doc.connections) = Cardinality(CompleteOnes)
        /\ \A j \in 1..Len(last.doc.connections) :
              \E i \in CompleteOnes :
                  last.doc.connections[j] = connection_save(heap_nodes, heap_conns[connections[i]])

\* save_to_memory was called on a scene whose collection holds a Complete
\* connection and one with an unbound end
C24_SavedWithUnfinishedWire ==
    /\ last.op = "save_to_memory"
    /\ CompleteOnes /= {}
    /\ \E i \in 1..Len(connections) : i \notin CompleteOnes

\* C25: a connection that create_connection returned has had the created
\* hook of its source model and of its destination model invoked once each,
\* with the connection on both ports and in the collection; once removed from
\* the collection it has had each deleted hook invoked once as well; no other
\* connection has had any hook invoked
C25_HooksOncePerConnection ==
    /\ \A c \in 1..Len(heap_conns) :
          heap_conns[c].hooks =
              IF InSeq(c, connections) THEN CreatedHooks
              ELSE IF heap_conns[c].hooks = <<>> THEN <<>>
              ELSE CreatedHooks \o DeletedHooks
    /\ (last.op = "create_connection" /\ last.raised = "none") =>
          /\ heap_conns[last.arg].hooks = CreatedHooks
          /\ last.arg \in Held(heap_conns[last.arg].in_node)
          /\ last.arg \in Held(heap_conns[last.arg].out_node)

\* a connection that create_connection returned has been deleted by
\* delete_connection
C25_CreatedThenDeleted ==
    /\ last.op = "delete_connection"
    /\ heap_conns[last.arg].hooks = CreatedHooks \o DeletedHooks

\* C26: the propagation that create_connection or an edit of a source starts
\* comes to an end within a recursion depth of the number of nodes; the
\* recursion never runs until the interpreter cuts it off
C26_PropagationDepthBounded ==
    last.op \in {"create_connection", "on_text_edited"} => last.raised /= "RecursionError"

\* create_connection was called with a node's own output as the source of
\* one of its inputs
C26_SelfLoopCreated ==
    /\ last.op = "create_connection"
    /\ heap_conns[last.arg].in_node = heap_conns[last.arg].out_node

\* the connections of the collection that lie downstream of node n
Downstream(n) ==
    {c \in 1..Len(heap_conns) :
        /\ InSeq(c, connections)
        /\ heap_conns[c].out_node \in ReachedFrom({n}, Len(heap_nodes))}

\* C27: when the edit of a source returns, at every connection downstream of
\* the source the destination's stored input is the current output of the
\* node the connection comes from
C27_EditReachesDownstream ==
    (last.op = "on_text_edited" /\ last.raised = "none") =>
        \A c \in Downstream(last.arg) :
            StoredInput(heap_nodes[heap_conns[c].in_node].model, heap_conns[c].in_index)
                = Delivered(heap_conns[c])

\* a source that feeds an Addition which feeds a third node was edited
C27_EditedTwoHopsUp ==
    /\ last.op = "on_text_edited"
    /\ last.raised = "none"
    /\ \E c \in Downstream(last.arg) : \E d \in Downstream(last.arg) :
          /\ heap_conns[c].out_node = last.arg
          /\ heap_nodes[heap_conns[c].in_node].model.name = "Addition"
          /\ heap_conns[d].out_node = heap_conns[c].in_node
          /\ heap_conns[d].in_node /= heap_conns[c].in_node

\* C28: a NumberSource restored from the saved state of a source puts out the
\* value that source put out, and a source restored from a state without
\* "number" puts out what it did before
C28_RestoreReproducesOutput ==
    last.op = "restore" => out_data(heap_nodes[last.arg].model) = last.data

\* a source holding 1234567 was saved and restored into a new NumberSource
C28_SevenDigitsRestored ==
    /\ last.op = "restore"
    /\ last.arg = Len(heap_nodes)
    /\ last.data = DecimalData(FromInt(1234567))

\* a restore of a state without "number" into a source that holds 2
C28_RestoredWithoutNumber ==
    /\ last.op = "restore"
    /\ last.arg < Len(heap_nodes)
    /\ last.data = DecimalData(FromInt(2))
    /\ out_data(heap_nodes[last.arg].model) = last.data

\* C29: in a load, no restore_node call comes after a restore_connection call
C29_NodesBeforeConnections ==
    last.op \in LoadOps =>
        \A i \in 1..Len(last.calls) : \A j \in (i + 1)..Len(last.calls) :
            ~(last.calls[i] = "restore_connection" /\ last.calls[j] = "restore_node")

\* a load that restored two nodes and then a connection
C29_TwoNodesThenConnection ==
    /\ last.op \in LoadOps
    /\ last.calls = <<"restore_node", "restore_node", "restore_connection">>

\* C30: a create_connection whose push has run the destination's set_in_data,
\* so that the input stored at the destination's port is another than before,
\* has the new connection in the collection, however the push ended
C30_ListedBeforePush ==
    [][(/\ last'.op = "create_connection"
        /\ Len(heap_conns') > Len(heap_conns)
        /\ StoredInput(heap_nodes'[heap_conns'[last'.arg].in_node].model,
                       heap_conns'[last'.arg].in_index)
              /= StoredInput(heap_nodes[heap_conns'[last'.arg].in_node].model,
                             heap_conns'[last'.arg].in_index))
       => InSeq(last'.arg, connections')]_vars

\* a create_connection that delivered a value to its destination and returned
C30_DeliveredAndListed ==
    /\ last.op = "create_connection"
    /\ last.raised = "none"
    /\ InSeq(last.arg, connections)
    /\ Delivered(heap_conns[last.arg]) /= None
    /\ StoredInput(heap_nodes[heap_conns[last.arg].in_node].model,
                   heap_conns[last.arg].in_index) = Delivered(heap_conns[last.arg])

\* C31: after a set_in_data the validation state of an operation is the
\* outcome of this computation alone: Warning when an input is empty, Error
\* when a Division or Modulo has a zero divisor, otherwise Valid, and on a
\* Division with the output dividend / divisor
C31_StateOfLastAttempt ==
    (last.op = "set_in_data" /\ heap_nodes[last.arg].model.name \in MathNames) =>
        IF heap_nodes[last.arg].model.number1 = None
              \/ heap_nodes[last.arg].model.number2 = None
        THEN heap_nodes[last.arg].model.validation_state = "warning"
        ELSE IF /\ heap_nodes[last.arg].model.name \in {"Division", "Modulo"}
                /\ heap_nodes[last.arg].model.number2.number.num = 0
        THEN heap_nodes[last.arg].model.validation_state = "error"
        ELSE /\ heap_nodes[last.arg].model.validation_state = "valid"
             /\ heap_nodes[last.arg].model.name = "Division" =>
                   heap_nodes[last.arg].model.result
                      = DecimalData(RatDiv(heap_nodes[last.arg].model.number1.number,
                                           heap_nodes[last.arg].model.number2.number))

\* a Division whose inputs are the decimals 2 and 2 after a set_in_data
C31_NonZeroDivisorDelivered ==
    /\ last.op = "set_in_data"
    /\ heap_nodes[last.arg].model.name = "Division"
    /\ heap_nodes[last.arg].model.number1 = DecimalData(FromInt(2))
    /\ heap_nodes[last.arg].model.number2 = DecimalData(FromInt(2))

\* a set_in_data with None on an operation that was Valid leaves it Warning
C31_NoneAfterValidIsWarning ==
    [][(/\ last'.op = "set_in_data"
        /\ heap_nodes[last'.arg].model.name \in MathNames
        /\ heap_nodes[last'.arg].model.validation_state = "valid"
        /\ \/ heap_nodes'[last'.arg].model.number1 = None
           \/ heap_nodes'[last'.arg].model.number2 = None)
       => heap_nodes'[last'.arg].model.validation_state = "warning"]_vars

\* the times connection_created has reached the nodes of connection c
TimesCreated(c) ==
    Cardinality({i \in 1..Len(heap_conns[c].hooks) :
                    heap_conns[c].hooks[i] = "output_connection_created"})

Unbound(c) == heap_conns[c].in_node = 0 \/ heap_conns[c].out_node = 0

Displays == {n \in 1..Len(heap_nodes) : heap_nodes[n].model.name = "NumberDisplay"}

\* C33: a Display whose input holds a Decimal value is Valid, and one whose
\* input holds no value is Warning
C33_DisplayStateFollowsInput ==
    \A n \in Displays :
        /\ heap_nodes[n].model.number.type = "decimal" =>
              heap_nodes[n].model.validation_state = "valid"
        /\ heap_nodes[n].model.number = None =>
              heap_nodes[n].model.validation_state = "warning"

\* create_connection has joined a NumberSource to a Display and returned
C33_SourceJoinedToDisplay ==
    /\ last.op = "create_connection"
    /\ last.raised = "none"
    /\ heap_conns[last.arg].in_node \in Displays
    /\ heap_nodes[heap_conns[last.arg].out_node].model.name = "NumberSource"
    /\ heap_conns[last.arg].converter = NoConverter
    /\ heap_nodes[heap_conns[last.arg].in_node].model.number.type = "decimal"

\* connection c is on the out port and on the in port its ends name
OnBothPorts(c) ==
    /\ InSeq(c, port_connections(heap_nodes[heap_conns[c].out_node], "out",
                                 heap_conns[c].out_index))
    /\ InSeq(c, port_connections(heap_nodes[heap_conns[c].in_node], "in",
                                 heap_conns[c].in_index))

OnSomePort(c) == \E n \in 1..Len(heap_nodes) : c \in Held(n)

\* C34: between operations a Complete connection is in the collection exactly
\* when both its ports hold it; no port holds a connection the collection has
\* not
C34_CollectionAgreesWithPorts ==
    \A c \in 1..Len(heap_conns) :
        IsComplete(heap_conns[c]) =>
            /\ InSeq(c, connections) <=> OnBothPorts(c)
            /\ OnSomePort(c) => InSeq(c, connections)

\* a create_connection has ended with its connection on both ports
C34_CreatedOnBothPorts ==
    /\ last.op = "create_connection"
    /\ OnBothPorts(last.arg)

\* C35: delete_connection of a connection the collection does not hold
\* returns, and leaves the nodes, the collection, every port and every model
\* as they were, with no retraction and no signal
C35_AbsentDeleteChangesNothing ==
    [][(last'.op = "delete_connection" /\ ~InSeq(last'.arg, connections))
       => /\ last'.raised = "none"
          /\ nodes' = nodes
          /\ connections' = connections
          /\ heap_nodes' = heap_nodes
          /\ heap_conns' = heap_conns]_vars

\* delete_connection was called a second time for a connection that had been
\* created, fed its destination and been deleted, after another operation
C35_DeletedOnceMore ==
    /\ last.op = "delete_connection"
    /\ ~InSeq(last.arg, connections)
    /\ heap_conns[last.arg].hooks = CreatedHooks \o DeletedHooks
    /\ \E n \in 1..Len(heap_nodes) : n \notin SceneNodes

C37_ClearedAndDetached ==
    [][(last'.op = "clear_scene" /\ last'.raised = "none") =>
          /\ nodes' = <<>>
          /\ connections' = <<>>
          /\ \A c \in 1..Len(heap_conns) : ~OnSomePort(c)']_vars

\* the connections of the collection, wires with one end among them, are off
\* every port when clear_scene has returned
C37_CollectionDetached ==
    [][(last'.op = "clear_scene" /\ last'.raised = "none") =>
          /\ nodes' = <<>>
          /\ connections' = <<>>
          /\ \A c \in 1..Len(heap_conns) : InSeq(c, connections) => ~OnSomePort(c)']_vars

\* clear_scene has returned on a scene that held nodes, a connection and a
\* wire with one end, and the connection's hooks were called
C37_ClearedWireAndConnection ==
    /\ last.op = "clear_scene"
    /\ last.raised = "none"
    /\ heap_nodes /= <<>>
    /\ \E c \in 1..Len(heap_conns) : Unbound(c)
    /\ \E c \in 1..Len(heap_conns) : heap_conns[c].hooks = CreatedHooks \o DeletedHooks

\* C38: remove_node of a node that is not in the node collection ends in an
\* error and leaves the node collection and the connection collection as
\* they were
C38_AbsentRemoveIsAnError ==
    [][(last'.op = "remove_node" /\ last'.arg \notin SceneNodes)
       => /\ last'.raised /= "none"
          /\ nodes' = nodes
          /\ connections' = connections]_vars

\* remove_node of a node that had been removed before has ended in KeyError
C38_RemovedTwice ==
    /\ last.op = "remove_node"
    /\ last.raised = "KeyError"
    /\ last.arg \notin SceneNodes

\* the policy of the port the last can_connect was read on: One for an input
\* port, and for an output port what the model's port_out_connection_policy
\* returns
LastPolicy ==
    IF last.port = "in" THEN "one"
    ELSE port_out_connection_policy(heap_nodes[last.arg].model, last.visited[1])

\* C39: can_connect is read without an exception and is true exactly when
\* the port holds no connection or its policy is Many
C39_CanConnectIsEmptyOrMany ==
    last.op = "can_connect" =>
        /\ last.raised = "none"
        /\ last.emitted[1] =
              (\/ port_connections(heap_nodes[last.arg], last.port, last.visited[1]) = <<>>
               \/ LastPolicy = "many")

\* can_connect was read on an output port of policy Many that holds a
\* connection
C39_ReadOnFilledOutput ==
    /\ last.op = "can_connect"
    /\ last.port = "out"
    /\ port_connections(heap_nodes[last.arg], "out", last.visited[1]) /= <<>>
    /\ LastPolicy = "many"

\* can_connect of input ports and of empty ports is as the claim has it
C39_InputAndEmptyPorts ==
    (/\ last.op = "can_connect"
     /\ \/ last.port = "in"
        \/ port_connections(heap_nodes[last.arg], last.port, last.visited[1]) = <<>>)
    => /\ last.raised = "none"
       /\ last.emitted[1] =
             (port_connections(heap_nodes[last.arg], last.port, last.visited[1]) = <<>>)

====
